---- MODULE Spec2Model ----
(***************************************************************************)
(* Sokoban (t-kuester/sokoban): the game model of model.py (Pos, Move,     *)
(* State, Level), the level parser of parser.py, the planning algorithms   *)
(* of search.py and the solver of solver.py, as a state machine over a     *)
(* small object heap.                                                      *)
(*                                                                         *)
(* Python objects that are mutated in place (the set State.boxes, the      *)
(* lists State.history and State.redoable) live in the heap under a        *)
(* reference; a State object holds the references, so that two State       *)
(* objects sharing one set or list is something the model can express.     *)
(***************************************************************************)
EXTENDS Integers, Sequences, FiniteSets, TLC

VARIABLES
    levels,   \* the level set: a sequence of Level values
    heap,     \* the State objects, and the sets and lists they refer to
    last,     \* the last call made: operation, object, argument, result
    pre,      \* the heap as it was before the last call
    run,      \* the current run of undo calls followed by redo calls
    rt,       \* progress of a copy / move / undo round trip
    plan,     \* the path planned by plan_push or solve and its replay on a copy
    search    \* the data of the call that is running, or the fields of the game

vars == <<levels, heap, last, pre, run, rt, plan, search>>

\* Bounds of the model.
MaxHist == 4
MaxHistCopy == 2
MaxPlay == 3
MaxRoom == 3
MaxGoals == 4
MaxSeen == 8
MaxChars == 3
MaxTimers == 2

\* Python's None: a value of its own, equal to no position, move or path.
None == [none |-> TRUE]

(***************************************************************************)
(* model.py: Pos and Move                                                  *)
(***************************************************************************)
Pos(r, c) == [r |-> r, c |-> c]

Mv(dr, dc, push) == [dr |-> dr, dc |-> dc, push |-> push]

\* An inverse that keeps the direction.
inv_forward(m) == m

inv(m) == Mv(-m.dr, -m.dc, m.push)

add(pos, m) == Pos(pos.r + m.dr, pos.c + m.dc)

abs(x) == IF x < 0 THEN -x ELSE x

dist(p, q) == abs(p.r - q.r) + abs(p.c - q.c)

(***************************************************************************)
(* search.py: the four unit moves, in the order the searches expand them   *)
(***************************************************************************)
MOVES == << Mv(0, 1, FALSE), Mv(0, -1, FALSE), Mv(-1, 0, FALSE), Mv(1, 0, FALSE) >>

\* Moves for the push planner that do not allow a push.
MOVES_P_walking == [i \in DOMAIN MOVES |-> Mv(MOVES[i].dr, MOVES[i].dc, FALSE)]

MOVES_P == [i \in DOMAIN MOVES |-> Mv(MOVES[i].dr, MOVES[i].dc, TRUE)]

\* The moves a caller may ask for: a unit step, pushing allowed or not.
UnitMoves == {MOVES[i] : i \in DOMAIN MOVES} \cup {MOVES_P[i] : i \in DOMAIN MOVES_P}

(***************************************************************************)
(* The heap.  A State object holds the index of its Level, a reference to  *)
(* its set of boxes, the player's position and references to its history   *)
(* and redoable lists.  An object, set or list created for a holder (the   *)
(* variable or attribute it is bound to) is stored under that holder's     *)
(* name; what the holder referred to before is garbage by then.            *)
(***************************************************************************)
ObjIds == {"initial", "state", "copy", "state2"}

ListIds == {<<k, f>> : k \in ObjIds, f \in {"history", "redoable"}}

NoObj == [level |-> 0, boxes |-> "initial", player |-> None,
          history |-> <<"initial", "history">>, redoable |-> <<"initial", "redoable">>]

EmptyHeap == [alive |-> {},
              objs  |-> [k \in ObjIds |-> NoObj],
              sets  |-> [k \in ObjIds |-> {}],
              lists |-> [l \in ListIds |-> <<>>]]

\* The State object k as a value: its references followed.
Deref(H, k) ==
    [level    |-> H.objs[k].level,
     boxes    |-> H.sets[H.objs[k].boxes],
     player   |-> H.objs[k].player,
     history  |-> H.lists[H.objs[k].history],
     redoable |-> H.lists[H.objs[k].redoable]]

\* State(level, boxes, player, history) as a value (no heap involved), as
\* the searches build their scratch states.
State(level, boxes, player) ==
    [level |-> level, boxes |-> boxes, player |-> player,
     history |-> <<>>, redoable |-> <<>>]

\* State.__init__, creating the object held by k: set(boxes) and
\* list(history or []) are new objects, redoable is a new empty list.
State__init__(H, k, level, boxes, player, history) ==
    [alive |-> H.alive \cup {k},
     objs  |-> [H.objs EXCEPT ![k] =
                  [level |-> level, boxes |-> k, player |-> player,
                   history |-> <<k, "history">>, redoable |-> <<k, "redoable">>]],
     sets  |-> [H.sets EXCEPT ![k] = boxes],
     lists |-> [H.lists EXCEPT
                  ![<<k, "history">>] = IF history = None THEN <<>> ELSE history.list,
                  ![<<k, "redoable">>] = <<>>]]

\* A copy that takes over the set of boxes and the history list of src
\* instead of copying them.
copy_shared(H, src, dst) ==
    [H EXCEPT !.alive = @ \cup {dst},
              !.objs[dst] = [level |-> H.objs[src].level, boxes |-> H.objs[src].boxes,
                             player |-> H.objs[src].player,
                             history |-> H.objs[src].history,
                             redoable |-> <<dst, "redoable">>],
              !.lists[<<dst, "redoable">>] = <<>>]

\* State.copy, the new object held by dst.
copy(H, src, dst) ==
    State__init__(H, dst, H.objs[src].level, H.sets[H.objs[src].boxes],
                  H.objs[src].player, [list |-> H.lists[H.objs[src].history]])

(***************************************************************************)
(* model.py: Level                                                         *)
(***************************************************************************)
Max(S) == CHOOSE x \in S : \A y \in S : y <= x

\* Level.__init__ without its initial_state, which is an object of the heap.
Level__init__(walls, goals) ==
    [walls    |-> walls,
     goals    |-> goals,
     size     |-> Pos(Max({p.r + 1 : p \in walls}), Max({p.c + 1 : p \in walls})),
     deadends |-> {}]

(***************************************************************************)
(* parser.py: load_level.  A level text is a sequence of lines, a line a   *)
(* sequence of characters; rows and columns count from 0.                  *)
(***************************************************************************)
WALL        == "#"
PLAYER      == "@"
PLAYER_GOAL == "+"
BOX         == "$"
BOX_GOAL    == "*"
FLOOR_GOAL  == "."
FLOOR       == " "

Cells(lines) == {Pos(r - 1, c - 1) : r \in DOMAIN lines, c \in 1..Max({Len(lines[i]) : i \in DOMAIN lines})}

CharAt(lines, p) ==
    IF p.c + 1 \in DOMAIN lines[p.r + 1] THEN lines[p.r + 1][p.c + 1] ELSE "eol"

\* p comes before q in the order load_level scans the text.
ScannedBefore(p, q) == p.r < q.r \/ (p.r = q.r /\ p.c < q.c)

\* The sets and the player position load_level hands to Level: the player
\* is the last player character scanned, None when there is none.
load_level(lines) ==
    LET walls   == {p \in Cells(lines) : CharAt(lines, p) = WALL}
        goals   == {p \in Cells(lines) : CharAt(lines, p) \in {PLAYER_GOAL, BOX_GOAL, FLOOR_GOAL}}
        boxes   == {p \in Cells(lines) : CharAt(lines, p) \in {BOX, BOX_GOAL}}
        players == {p \in Cells(lines) : CharAt(lines, p) \in {PLAYER, PLAYER_GOAL}}
        player  == IF players = {} THEN None
                   ELSE CHOOSE p \in players : \A q \in players : q = p \/ ScannedBefore(q, p)
    IN  [walls |-> walls, goals |-> goals, boxes |-> boxes, player |-> player]

\* The level file of the model: small rooms enclosed by walls.
LevelTexts ==
    << << <<"#","#","#","#","#">>,
          <<"#","@","$"," ","#">>,
          <<"#"," ","$"," ","#">>,
          <<"#"," ",".",".","#">>,
          <<"#","#","#","#","#">> >>,
       << <<"#","#","#","#","#","#">>,
          <<"#","+","$","$"," ","#">>,
          <<"#","#","#","#","#","#">> >>,
       << <<"#","#","#","#","#">>,
          <<"#",".","$","@","#">>,
          <<"#"," ","#"," ","#">>,
          <<"#"," "," ","*","#">>,
          <<"#","#","#","#","#">> >>,
       << <<"#","#","#","#","#","#">>,
          <<"#","@","$"," "," ","#">>,
          <<"#","$"," "," ",".","#">>,
          <<"#","$"," ",".",".","#">>,
          <<"#","#","#","#","#","#">> >> >>

(***************************************************************************)
(* model.py: State.  is_free and can_move read a State value; move, undo   *)
(* and redo act on the object k of heap H and give the heap after the      *)
(* call, the value returned (ret) and whether the call raised (exc).       *)
(***************************************************************************)
\* is_free without the test for a box.
is_free_of_walls(st, pos) == pos \notin levels[st.level].walls

is_free(st, pos) ==
    pos \notin levels[st.level].walls /\ pos \notin st.boxes

\* can_move without the test of the cell behind the box.
can_move_into_anything(st, m) ==
    LET next_ == add(st.player, m)
    IN  \/ is_free(st, next_)
        \/ (m.push /\ next_ \in st.boxes)

\* can_move without the test of the push flag.
can_move_unasked(st, m) ==
    LET next_ == add(st.player, m)
    IN  \/ is_free(st, next_)
        \/ (next_ \in st.boxes /\ is_free(st, add(next_, m)))

can_move(st, m) ==
    LET next_ == add(st.player, m)
    IN  \/ is_free(st, next_)
        \/ (m.push /\ next_ \in st.boxes /\ is_free(st, add(next_, m)))

\* boxes.add without the boxes.remove before it.
push_box_kept(boxes, player, m) == boxes \cup {add(player, m)}

\* boxes.remove(player); boxes.add(player.add(move)), player being the
\* position the player has just moved to.
push_box(boxes, player, m) == (boxes \ {player}) \cup {add(player, m)}

\* The move as it was asked for.
history_entry_asked(m, push) == m

\* Move(move.dr, move.dc, push): the move with the push that happened.
history_entry(m, push) == Mv(m.dr, m.dc, push)

\* The box left where it was pushed to.
pull_box_left(boxes, player, m) == boxes

\* An undo that puts a box behind the mover and leaves the pushed one.
pull_box_added(boxes, player, m) == boxes \cup {player}

\* boxes.add(player); boxes.remove(player.add(move)), player being the
\* position the player is about to leave.
pull_box(boxes, player, m) == (boxes \cup {player}) \ {add(player, m)}

move(H, k, m, clear_redo) ==
    IF can_move(Deref(H, k), m)
    THEN LET o      == H.objs[k]
             player == add(o.player, m)
             push   == player \in H.sets[o.boxes]
             sets1  == IF push
                       THEN [H.sets EXCEPT ![o.boxes] = push_box(@, player, m)]
                       ELSE H.sets
             lists1 == [H.lists EXCEPT ![o.history] = Append(@, history_entry(m, push))]
             \* self.redoable = [] binds a new list
             redo1  == IF clear_redo THEN <<k, "redoable">> ELSE o.redoable
             lists2 == IF clear_redo THEN [lists1 EXCEPT ![redo1] = <<>>] ELSE lists1
         IN  [heap |-> [H EXCEPT !.objs[k].player = player,
                                 !.objs[k].redoable = redo1,
                                 !.sets = sets1,
                                 !.lists = lists2],
              ret  |-> TRUE,
              exc  |-> FALSE]
    ELSE [heap |-> H, ret |-> FALSE, exc |-> FALSE]

undo(H, k) ==
    LET o == H.objs[k]
        history == H.lists[o.history]
    IN  IF history # <<>>
        THEN LET m      == history[Len(history)]
                 popped == [H.lists EXCEPT ![o.history] = SubSeq(history, 1, Len(history) - 1)]
                 \* boxes.add(player) is done; boxes.remove(player.add(move))
                 \* raises KeyError when there is no such box
                 added  == IF m.push
                           THEN [H.sets EXCEPT ![o.boxes] = @ \cup {o.player}]
                           ELSE H.sets
                 raises == m.push /\ add(o.player, m) \notin added[o.boxes]
             IN  IF raises
                 THEN [heap |-> [H EXCEPT !.lists = popped, !.sets = added],
                       ret  |-> None,
                       exc  |-> TRUE]
                 ELSE [heap |-> [H EXCEPT
                                   !.lists = [popped EXCEPT ![o.redoable] = Append(@, m)],
                                   !.sets = IF m.push
                                            THEN [H.sets EXCEPT ![o.boxes] = pull_box(@, o.player, m)]
                                            ELSE H.sets,
                                   !.objs[k].player = add(o.player, inv(m))],
                       ret  |-> m,
                       exc  |-> FALSE]
        ELSE [heap |-> H, ret |-> None, exc |-> FALSE]

\* redo whose call of move clears the redoable list like any other move.
redo_clearing(H, k) ==
    LET o == H.objs[k]
        redoable == H.lists[o.redoable]
    IN  IF redoable # <<>>
        THEN move([H EXCEPT !.lists[o.redoable] = SubSeq(redoable, 1, Len(redoable) - 1)],
                  k, redoable[Len(redoable)], TRUE)
        ELSE [heap |-> H, ret |-> None, exc |-> FALSE]

\* redo that reads the last undone move and leaves it in the list.
redo_unpopped(H, k) ==
    LET o == H.objs[k]
        redoable == H.lists[o.redoable]
    IN  IF redoable # <<>>
        THEN move(H, k, redoable[Len(redoable)], FALSE)
        ELSE [heap |-> H, ret |-> None, exc |-> FALSE]

\* redo without the test for an empty list: list.pop() raises IndexError.
redo_unguarded(H, k) ==
    LET o == H.objs[k]
        redoable == H.lists[o.redoable]
    IN  IF redoable # <<>>
        THEN move([H EXCEPT !.lists[o.redoable] = SubSeq(redoable, 1, Len(redoable) - 1)],
                  k, redoable[Len(redoable)], FALSE)
        ELSE [heap |-> H, ret |-> None, exc |-> TRUE]

\* redo returns nothing; ret is what its call of move returned, None when
\* the redoable list was empty and move was not called.
redo(H, k) ==
    LET o == H.objs[k]
        redoable == H.lists[o.redoable]
    IN  IF redoable # <<>>
        THEN move([H EXCEPT !.lists[o.redoable] = SubSeq(redoable, 1, Len(redoable) - 1)],
                  k, redoable[Len(redoable)], FALSE)
        ELSE [heap |-> H, ret |-> None, exc |-> FALSE]

is_solved(st) == \A g \in levels[st.level].goals : g \in st.boxes

(***************************************************************************)
(* search.py.  A search result is None or a list of moves; the list is     *)
(* wrapped, [list |-> moves], so that the empty list and None differ.      *)
(***************************************************************************)
Some(moves) == [list |-> moves]

\* A set as a sequence, in row-major order of its positions: the order in
\* which deque(level.goals) lists a frozenset does not change what the
\* floods below collect.
RECURSIVE Listed(_)
Listed(S) ==
    IF S = {} THEN <<>>
    ELSE LET p == CHOOSE x \in S : \A y \in S : x = y \/ ScannedBefore(x, y)
         IN  <<p>> \o Listed(S \ {p})

\* A flood that looks, with buffer, at the cell before p instead of the
\* cell after the next one.
Admits_pushing(p, m, blocked, buffer) ==
    /\ add(p, m) \notin blocked
    /\ buffer => add(p, inv(m)) \notin blocked

\* A flood that never looks at the cell after the next one.
Admits_unbuffered(p, m, blocked, buffer) == add(p, m) \notin blocked

\* A flood steps from p by m when the cell there is not blocked and, with
\* buffer, the cell after it is not blocked either.
Admits(p, m, blocked, buffer) ==
    /\ add(p, m) \notin blocked
    /\ buffer => add(add(p, m), m) \notin blocked

\* The queue after the loop over MOVES (from the i-th on) at position p has
\* appended every neighbour the flood steps to.
RECURSIVE Extended(_, _, _, _, _)
Extended(queue, p, i, blocked, buffer) ==
    IF i > Len(MOVES) THEN queue
    ELSE Extended(IF Admits(p, MOVES[i], blocked, buffer)
                  THEN Append(queue, add(p, MOVES[i])) ELSE queue,
                  p, i + 1, blocked, buffer)

\* while queue: p = queue.popleft(); if p not in seen: seen.add(p);
\* queue.extend(the neighbours the flood steps to)
RECURSIVE Flood(_, _, _, _)
Flood(queue, seen, blocked, buffer) ==
    IF queue = <<>> THEN seen
    ELSE LET p == Head(queue)
         IN  IF p \in seen
             THEN Flood(Tail(queue), seen, blocked, buffer)
             ELSE Flood(Extended(Tail(queue), p, 1, blocked, buffer), seen \cup {p},
                        blocked, buffer)

\* The walls alone.
Blocked_walls(st) == levels[st.level].walls

\* The cells is_free is false for.
Blocked(st) == levels[st.level].walls \cup st.boxes

\* The player's cell and the free cells next to it.
reachable_once(st) ==
    {st.player} \cup {add(st.player, MOVES[i]) : i \in {j \in DOMAIN MOVES :
                                                       is_free(st, add(st.player, MOVES[j]))}}

reachable(st) == Flood(<<st.player>>, {}, Blocked(st), FALSE)

\* The loop over MOVES of find_path (from the i-th on) at the popped (p, path).
RECURSIVE find_path_expand(_, _, _, _, _, _)
find_path_expand(st, p, path, i, queue, visited) ==
    IF i > Len(MOVES) THEN [queue |-> queue, visited |-> visited]
    ELSE LET p2 == add(p, MOVES[i])
         IN  IF is_free(st, p2) /\ p2 \notin visited
             THEN find_path_expand(st, p, path, i + 1,
                                   Append(queue, [p |-> p2, path |-> Append(path, MOVES[i])]),
                                   visited \cup {p2})
             ELSE find_path_expand(st, p, path, i + 1, queue, visited)

RECURSIVE find_path_loop(_, _, _, _)
\* A loop that pops the entry appended last instead of the first one.
find_path_loop_last(st, goal, queue, visited) ==
    IF queue = <<>> THEN None
    ELSE LET node == queue[Len(queue)]
         IN  IF node.p = goal THEN Some(node.path)
             ELSE LET e == find_path_expand(st, node.p, node.path, 1,
                                            SubSeq(queue, 1, Len(queue) - 1), visited)
                  IN  find_path_loop(st, goal, e.queue, e.visited)

\* The while loop of find_path; falling out of it returns None.
find_path_loop(st, goal, queue, visited) ==
    IF queue = <<>> THEN None
    ELSE LET node == Head(queue)
         IN  IF node.p = goal THEN Some(node.path)
             ELSE LET e == find_path_expand(st, node.p, node.path, 1, Tail(queue), visited)
                  IN  find_path_loop(st, goal, e.queue, e.visited)

find_path(st, goal) ==
    IF ~is_free(st, goal) THEN None
    ELSE IF st.player = goal THEN Some(<<>>)
    ELSE find_path_loop(st, goal, << [p |-> st.player, path |-> <<>>] >>, {})

\* A find_deadends that takes the deadends the level has for walls.
find_deadends_within(level) ==
    LET floor   == Flood(Listed(level.goals), {}, level.walls \cup level.deadends, FALSE)
        visited == Flood(Listed(level.goals), {}, level.walls \cup level.deadends, TRUE)
    IN  floor \ visited

\* Deadends that take the walls for floor.
find_deadends_walled(level) ==
    LET floor   == Flood(Listed(level.goals), {}, level.walls, FALSE)
        visited == Flood(Listed(level.goals), {}, level.walls, TRUE)
    IN  (floor \cup level.walls) \ visited

find_deadends(level) ==
    LET floor   == Flood(Listed(level.goals), {}, level.walls, FALSE)
        visited == Flood(Listed(level.goals), {}, level.walls, TRUE)
    IN  floor \ visited

\* Python's order of tuples and lists, by which heapq pops the smallest
\* entry (priority, box, player, path).
PosLess(p, q) == p.r < q.r \/ (p.r = q.r /\ p.c < q.c)

MoveLess(m, n) ==
    \/ m.dr < n.dr
    \/ (m.dr = n.dr /\ m.dc < n.dc)
    \/ (m.dr = n.dr /\ m.dc = n.dc /\ ~m.push /\ n.push)

ListLess(a, b) ==
    LET differ == {i \in DOMAIN a \cap DOMAIN b : a[i] # b[i]}
    IN  IF differ = {} THEN Len(a) < Len(b)
        ELSE LET i == CHOOSE x \in differ : \A y \in differ : x <= y
             IN  MoveLess(a[i], b[i])

EntryLess(a, b) ==
    \/ a.priority < b.priority
    \/ (a.priority = b.priority /\ PosLess(a.box, b.box))
    \/ (a.priority = b.priority /\ a.box = b.box /\ PosLess(a.player, b.player))
    \/ (a.priority = b.priority /\ a.box = b.box /\ a.player = b.player
            /\ ListLess(a.path, b.path))

\* A pop of the greatest entry of the queue.
heappop_greatest(queue) == CHOOSE e \in queue : \A f \in queue : e = f \/ EntryLess(f, e)

\* heapq.heappop: the smallest entry of the queue.
heappop(queue) == CHOOSE e \in queue : \A f \in queue : e = f \/ EntryLess(e, f)

\* No cell taken for a deadend.
deadend_nowhere(st, pos) == FALSE

\* pos in state.level.deadends
deadend(st, pos) == pos \in levels[st.level].deadends

\* A path that leaves out the moves that bring the player behind the box.
path2_unpositioned(path, positioning, m) == Append(path, m)

\* path2 = path + positioning + [m]
path2(path, positioning, m) == Append(path \o positioning, m)

\* The loop over MOVES_P of plan_push (from the i-th on) at the popped
\* (box, player, path): the queue with the successors pushed.
RECURSIVE plan_push_expand(_, _, _, _, _, _, _, _)
plan_push_expand(st, start, goal, box, player, path, i, queue) ==
    IF i > Len(MOVES_P) THEN queue
    ELSE LET m      == MOVES_P[i]
             state2 == State(st.level, (st.boxes \ {start}) \cup {box}, player)
             box2   == add(box, m)
             positioning == find_path(state2, add(box, inv(m)))
             pushed == IF is_free(state2, box2) /\ ~deadend(st, box2)
                          /\ positioning # None
                       THEN LET p2 == path2(path, positioning.list, m)
                            IN  {[priority |-> Len(p2) + dist(box2, goal),
                                  box |-> box2, player |-> box, path |-> p2]}
                       ELSE {}
         IN  plan_push_expand(st, start, goal, box, player, path, i + 1, queue \cup pushed)

\* A key of the box alone.
visited_key_box(box, player) == << box >>

\* (box, player), the key of visited
visited_key(box, player) == << box, player >>

\* The while loop of plan_push; falling out of it returns None.
RECURSIVE plan_push_loop(_, _, _, _, _)
plan_push_loop(st, start, goal, queue, visited) ==
    IF queue = {} THEN None
    ELSE LET e    == heappop(queue)
             rest == queue \ {e}
         IN  IF e.box = goal THEN Some(e.path)
             ELSE IF visited_key(e.box, e.player) \in visited
             THEN plan_push_loop(st, start, goal, rest, visited)
             ELSE plan_push_loop(st, start, goal,
                                 plan_push_expand(st, start, goal, e.box, e.player, e.path, 1, rest),
                                 visited \cup {visited_key(e.box, e.player)})

plan_push(st, start, goal) ==
    plan_push_loop(st, start, goal,
                   {[priority |-> dist(start, goal), box |-> start,
                     player |-> st.player, path |-> <<>>]},
                   {})

(***************************************************************************)
(* The game: SokobanGame.__init__ loads a level, and the user interface    *)
(* calls move, undo and redo on the game's state.                          *)
(***************************************************************************)
NoCall == [op |-> "init", obj |-> "state", arg |-> None, ret |-> None, exc |-> FALSE,
           after |-> "init"]

NoRun == [mark |-> None, undos |-> 0, redos |-> 0]

\* No search is running.
NoSearch == [op |-> "none"]

NoPlan == [called |-> FALSE, solving |-> FALSE, start |-> None, goal |-> None,
           path |-> None, rest |-> <<>>, legal |-> TRUE]

\* Level(walls, goals, boxes, player) for parsed level text number i, its
\* initial_state in the heap, and the game's state a copy of it (load_level).
LoadGame(i) ==
    LET parsed == load_level(LevelTexts[i])
    IN  /\ levels = << Level__init__(parsed.walls, parsed.goals) >>
        /\ heap = copy(State__init__(EmptyHeap, "initial", 1, parsed.boxes, parsed.player, None),
                       "initial", "state")

\* A game on one of the level texts numbered in I.
GameInit(I) ==
    /\ \E i \in I : LoadGame(i)
    /\ last = NoCall
    /\ pre = heap
    /\ run = NoRun
    /\ rt = "none"
    /\ plan = NoPlan
    /\ search = NoSearch

Init == GameInit(DOMAIN LevelTexts)

\* The last call, for the call that follows it: a move that succeeded is
\* "moved".
Outcome == IF last.op = "move" /\ last.ret THEN "moved" ELSE last.op

\* A call of op on object k with argument arg came back as res.
Call(op, k, arg, res) ==
    /\ heap' = res.heap
    /\ pre' = heap
    /\ last' = [op |-> op, obj |-> k, arg |-> arg, ret |-> res.ret, exc |-> res.exc,
                after |-> Outcome]
    /\ UNCHANGED <<levels, search>>

\* The run of undo calls followed by redo calls that the call of op on the
\* game's state continues or starts; mark is the state before its first undo.
RunAfter(op) ==
    LET st == Deref(heap, "state")
    IN  CASE op = "undo" /\ st.history # <<>> ->
                IF run.mark # None /\ run.redos = 0
                THEN [run EXCEPT !.undos = @ + 1]
                ELSE [mark |-> st, undos |-> 1, redos |-> 0]
          [] op = "redo" /\ run.mark # None /\ run.redos < run.undos ->
                [run EXCEPT !.redos = @ + 1]
          [] OTHER -> NoRun

Move ==
    \E m \in UnitMoves :
        /\ Len(Deref(heap, "state").history) < MaxHist
        /\ Call("move", "state", m, move(heap, "state", m, TRUE))
        /\ run' = RunAfter("move")
        /\ UNCHANGED <<rt, plan, search>>

Undo ==
    /\ Call("undo", "state", None, undo(heap, "state"))
    /\ run' = RunAfter("undo")
    /\ UNCHANGED <<rt, plan, search>>

Redo ==
    /\ Call("redo", "state", None, redo(heap, "state"))
    /\ run' = RunAfter("redo")
    /\ UNCHANGED <<rt, plan, search>>

Next == Move \/ Undo \/ Redo

Spec == Init /\ [][Next]_vars

(***************************************************************************)
(* Properties of State.move, State.undo and State.redo                     *)
(***************************************************************************)
\* The object of the last call, now and before that call.
Now == Deref(heap, last.obj)
Before == Deref(pre, last.obj)

Walls(st) == levels[st.level].walls

\* What a cell holds in state st.
IsWall(st, p) == p \in Walls(st)
IsBlock(st, p) == p \in st.boxes
IsEmpty(st, p) == ~IsWall(st, p) /\ ~IsBlock(st, p)

Placed(st) ==
    /\ st.boxes \cap Walls(st) = {}
    /\ st.player \notin Walls(st)
    /\ st.player \notin st.boxes

\* C1: after any sequence of move, undo and redo calls, with any unit moves,
\* no block is on a wall cell and the mover is on neither a wall cell nor a
\* block cell.
C1_Placement == \A k \in heap.alive : Placed(Deref(heap, k))

\* A block was pushed, the push undone and redone.
C1_Witness ==
    /\ last.op = "redo" /\ Before.redoable # <<>> /\ last.ret = TRUE
    /\ last.after = "undo"
    /\ Now.boxes # Deref(heap, "initial").boxes
    /\ Placed(Now)

\* C2: can_move(m) is true exactly when the cell ahead is free, or m.push is
\* set, the cell ahead holds a block and the cell behind that block is free;
\* it is false with a wall ahead, with a block ahead and no push flag, and
\* with a block ahead that has a wall or a second block behind it.
C2_CanMove ==
    \A m \in UnitMoves :
        LET st     == Deref(heap, "state")
            ahead  == add(st.player, m)
            behind == add(ahead, m)
        IN  /\ can_move(st, m) <=>
                   \/ IsEmpty(st, ahead)
                   \/ (m.push /\ IsBlock(st, ahead) /\ IsEmpty(st, behind))
            /\ IsWall(st, ahead) => ~can_move(st, m)
            /\ IsBlock(st, ahead) /\ ~m.push => ~can_move(st, m)
            /\ IsBlock(st, ahead) /\ (IsWall(st, behind) \/ IsBlock(st, behind))
                   => ~can_move(st, m)

\* A push was asked for and refused, a second block being behind the block,
\* in a state that has another block that can be pushed when asked.
C2_Witness ==
    LET st == Deref(heap, "state")
    IN  /\ last.op = "move" /\ last.arg.push /\ last.ret = FALSE
        /\ IsBlock(st, add(add(st.player, last.arg), last.arg))
        /\ \E m \in UnitMoves :
               /\ IsBlock(st, add(st.player, m)) /\ IsEmpty(st, add(add(st.player, m), m))
               /\ m.push /\ can_move(st, m) /\ ~can_move(st, Mv(m.dr, m.dc, FALSE))
        /\ \E m \in UnitMoves :
               /\ IsBlock(st, add(st.player, m)) /\ IsBlock(st, add(add(st.player, m), m))
               /\ m.push /\ ~can_move(st, m)

\* C3: when move(m) succeeds the mover ends on its former cell plus m; if
\* that cell held a block, exactly that block ends one cell further and every
\* other block keeps its cell; if it was free the block set is unchanged, so
\* a move without the push flag never changes a block.
C3_MoveEffect ==
    (last.op = "move" /\ last.ret = TRUE) =>
        LET m      == last.arg
            target == add(Before.player, m)
        IN  /\ Now.player = target
            /\ target \in Before.boxes =>
                   /\ add(target, m) \notin Before.boxes
                   /\ add(target, m) \in Now.boxes
                   /\ target \notin Now.boxes
                   /\ Now.boxes \ {add(target, m)} = Before.boxes \ {target}
            /\ target \notin Before.boxes => Now.boxes = Before.boxes
            /\ ~m.push => Now.boxes = Before.boxes

\* A successful move into a cell that held a block.
C3_Witness ==
    /\ last.op = "move" /\ last.ret = TRUE
    /\ add(Before.player, last.arg) \in Before.boxes
    /\ Cardinality(Before.boxes) > 1

\* C4: after every successful move(m) the history is longer by exactly one
\* entry, with the deltas of m and a push flag that is true iff a block was
\* relocated by this move, whatever push flag was asked for.
C4_HistoryEntry ==
    (last.op = "move" /\ last.ret = TRUE) =>
        LET m == last.arg
        IN  /\ Len(Now.history) = Len(Before.history) + 1
            /\ SubSeq(Now.history, 1, Len(Before.history)) = Before.history
            /\ Now.history[Len(Now.history)].dr = m.dr
            /\ Now.history[Len(Now.history)].dc = m.dc
            /\ Now.history[Len(Now.history)].push <=> (Now.boxes # Before.boxes)

\* A move with the push flag set went into a free cell.
C4_Witness ==
    /\ last.op = "move" /\ last.ret = TRUE /\ last.arg.push
    /\ Now.boxes = Before.boxes
    /\ Now.history[Len(Now.history)] = Mv(last.arg.dr, last.arg.dc, FALSE)

\* C5: an operation that does not apply leaves the state unchanged: a move
\* for which can_move is false returns False, undo on an empty history and
\* redo on an empty redo list leave the block set, the mover, the history
\* and the redo list as they were, and none of them raises.
C5_NoEffect ==
    /\ (last.op = "move" /\ ~can_move(Before, last.arg)) =>
           last.ret = FALSE /\ ~last.exc /\ Now = Before /\ heap = pre
    /\ (last.op = "undo" /\ Before.history = <<>>) =>
           ~last.exc /\ Now = Before /\ heap = pre
    /\ (last.op = "redo" /\ Before.redoable = <<>>) =>
           ~last.exc /\ Now = Before /\ heap = pre

\* A move that is not legal, in a state that has moves to undo and to redo.
C5_Witness ==
    /\ last.op = "move" /\ ~can_move(Before, last.arg) /\ last.ret = FALSE
    /\ Before.redoable # <<>> /\ Before.history # <<>>
    /\ Now = Before

\* C7: k undo calls in a row (k at most the length of the history) followed
\* by k redo calls restore the block set, the mover, the history and the
\* redo list to what they were before the first undo, and every redo call
\* with something to redo applies its move.
C7_UndoRedo ==
    /\ (run.mark # None /\ run.redos = run.undos) => Deref(heap, "state") = run.mark
    /\ (last.op = "redo" /\ Before.redoable # <<>>) =>
           /\ last.ret = TRUE
           /\ Len(Now.redoable) = Len(Before.redoable) - 1
           /\ Len(Now.history) = Len(Before.history) + 1

\* Two undo calls and then two redo calls, a push among the moves.
C7_Witness ==
    /\ run.mark # None /\ run.undos > 1 /\ run.redos = run.undos
    /\ \E i \in DOMAIN run.mark.history : run.mark.history[i].push
    /\ Deref(heap, "state") = run.mark

\* C8: after a successful move issued directly the redo list is empty, so a
\* redo right after it changes nothing; undo appends the undone move to the
\* redo list; redo removes only the entry it replays.
C8_RedoList ==
    /\ (last.op = "move" /\ last.ret = TRUE) => Now.redoable = <<>>
    /\ (last.op = "redo" /\ last.after = "moved") => heap = pre
    /\ (last.op = "undo" /\ Before.history # <<>>) =>
           Now.redoable = Append(Before.redoable, Before.history[Len(Before.history)])
    /\ (last.op = "redo" /\ Before.redoable # <<>>) =>
           Now.redoable = SubSeq(Before.redoable, 1, Len(Before.redoable) - 1)

\* A move cleared a redo list that held an undone move.
C8_Witness ==
    /\ last.op = "move" /\ last.ret = TRUE /\ Before.redoable # <<>>
    /\ Now.redoable = <<>>

(***************************************************************************)
(* A state and a copy of it: State.copy, and move, undo and redo called    *)
(* on either object.                                                       *)
(***************************************************************************)
\* The copy / move / undo round trip on the copy, as far as it has come.
RtAfter(op, k, res) ==
    CASE op = "copy" -> "copied"
      [] op = "move" /\ k = "copy" /\ rt = "copied" /\ res.ret -> "moved"
      [] op = "undo" /\ k = "copy" /\ rt = "moved" -> "undone"
      [] OTHER -> "none"

Copy ==
    LET res == [heap |-> copy(heap, "state", "copy"), ret |-> None, exc |-> FALSE]
    IN  /\ Call("copy", "copy", None, res)
        /\ rt' = RtAfter("copy", "copy", res)
        /\ UNCHANGED <<run, plan, search>>

MoveOn ==
    \E k \in heap.alive \ {"initial"}, m \in UnitMoves :
        LET res == move(heap, k, m, TRUE)
        IN  /\ Len(Deref(heap, k).history) < MaxHistCopy
            /\ Call("move", k, m, res)
            /\ rt' = RtAfter("move", k, res)
            /\ UNCHANGED <<run, plan, search>>

UndoOn ==
    \E k \in heap.alive \ {"initial"} :
        LET res == undo(heap, k)
        IN  /\ Call("undo", k, None, res)
            /\ rt' = RtAfter("undo", k, res)
            /\ UNCHANGED <<run, plan, search>>

RedoOn ==
    \E k \in heap.alive \ {"initial"} :
        LET res == redo(heap, k)
        IN  /\ Call("redo", k, None, res)
            /\ rt' = RtAfter("redo", k, res)
            /\ UNCHANGED <<run, plan, search>>

NextCopy == Copy \/ MoveOn \/ UndoOn \/ RedoOn

\* The copy runs leave out the first level text, the widest room.
InitCopy == GameInit(DOMAIN LevelTexts \ {1})

SpecCopy == InitCopy /\ [][NextCopy]_vars

\* C6: for every state S reached by legal moves and every move m that S can
\* make, move(m) and then undo() on a copy of S give a block set, a mover
\* position and a history equal to those of S.
C6_MoveUndo ==
    rt = "undone" =>
        /\ Deref(heap, "copy").boxes = Deref(heap, "state").boxes
        /\ Deref(heap, "copy").player = Deref(heap, "state").player
        /\ Deref(heap, "copy").history = Deref(heap, "state").history

\* The round trip was made with a push, from a state that had moved itself.
C6_Witness ==
    /\ rt = "undone" /\ last.op = "undo" /\ last.ret.push
    /\ Deref(heap, "state").history # <<>>
    /\ Deref(heap, "copy").boxes = Deref(heap, "state").boxes

\* C9: copy() gives a state with the same block set, mover position and
\* history and the same Level; after it, no move, undo or redo on the copy
\* changes the block set, mover position, history or redo list of the
\* original, and none on the original changes those of the copy.
C9_Copy ==
    /\ last.op = "copy" =>
           /\ Deref(heap, "copy").boxes = Deref(heap, "state").boxes
           /\ Deref(heap, "copy").player = Deref(heap, "state").player
           /\ Deref(heap, "copy").history = Deref(heap, "state").history
           /\ Deref(heap, "copy").level = Deref(heap, "state").level
           /\ Deref(heap, "state") = Deref(pre, "state")
    /\ last.op \in {"move", "undo", "redo"} =>
           \A j \in heap.alive \ {last.obj} : Deref(heap, j) = Deref(pre, j)

\* The copy pushed a block that the original, itself moved and undone, has
\* still where it was.
C9_Witness ==
    /\ "copy" \in heap.alive
    /\ last.op = "move" /\ last.obj = "copy" /\ last.ret = TRUE
    /\ Deref(heap, "copy").boxes # Deref(pre, "copy").boxes
    /\ Deref(heap, "state").boxes = Deref(pre, "copy").boxes
    /\ Deref(heap, "state").redoable # <<>>

(***************************************************************************)
(* Push planning: plan_push is called for a box of the game's state and a  *)
(* cell of the grid, and the path it returns is replayed move by move on a *)
(* copy of that state, as solve does with every plan.  The deadends of the *)
(* level are empty or those of find_deadends, as the "d" key sets them.    *)
(***************************************************************************)
GridCells(level) == {Pos(r, c) : r \in 0..(level.size.r - 1), c \in 0..(level.size.c - 1)}

Play ==
    \E m \in UnitMoves :
        /\ ~plan.called
        /\ Len(Deref(heap, "state").history) < MaxPlay
        /\ can_move(Deref(heap, "state"), m)
        /\ heap' = move(heap, "state", m, TRUE).heap
        /\ UNCHANGED <<levels, last, pre, run, rt, plan, search>>

ToggleDeadends ==
    /\ ~plan.called
    /\ levels' = [levels EXCEPT ![1].deadends =
                     IF @ # {} THEN {} ELSE find_deadends(levels[1])]
    /\ UNCHANGED <<heap, last, pre, run, rt, plan, search>>

PlanPush ==
    \E start \in Deref(heap, "state").boxes, goal \in GridCells(levels[1]) :
        LET path == plan_push(Deref(heap, "state"), start, goal)
        IN  /\ ~plan.called
            /\ plan' = [called |-> TRUE, solving |-> FALSE, start |-> start, goal |-> goal,
                        path |-> path,
                        rest |-> IF path = None THEN <<>> ELSE path.list,
                        legal |-> TRUE]
            /\ heap' = copy(heap, "state", "copy")
            /\ UNCHANGED <<levels, last, pre, run, rt, search>>

Replay ==
    /\ plan.rest # <<>>
    /\ plan' = [plan EXCEPT !.rest = Tail(@),
                            !.legal = @ /\ can_move(Deref(heap, "copy"), Head(plan.rest))]
    /\ heap' = move(heap, "copy", Head(plan.rest), TRUE).heap
    /\ UNCHANGED <<levels, last, pre, run, rt, search>>

NextPlan == Play \/ ToggleDeadends \/ PlanPush \/ Replay

SpecPlan == Init /\ [][NextPlan]_vars

\* C10: whenever plan_push(S, start, goal) returns a sequence, start being
\* the cell of a block of S, replaying it move by move on a copy of S has
\* can_move true at every step and ends with a block on goal and, unless
\* start equals goal, no block on start.
C10_PlanReplays ==
    (plan.called /\ plan.path # None) =>
        /\ plan.legal
        /\ plan.rest = <<>> =>
               /\ plan.goal \in Deref(heap, "copy").boxes
               /\ plan.start # plan.goal => plan.start \notin Deref(heap, "copy").boxes

\* A plan of two pushes or more, with moves in between that bring the
\* player behind the box, was replayed to its end.
C10_Witness ==
    /\ plan.called /\ plan.path # None /\ plan.rest = <<>> /\ plan.legal
    /\ Cardinality({i \in DOMAIN plan.path.list : plan.path.list[i].push}) > 1
    /\ \E i \in DOMAIN plan.path.list :
           i > 1 /\ ~plan.path.list[i].push /\ plan.path.list[i - 1].push
    /\ plan.goal \in Deref(heap, "copy").boxes

\* The moves of the plan that were replayed so far.
Played == SubSeq(plan.path.list, 1, Len(plan.path.list) - Len(plan.rest))

\* The cell of the block that stood on box when the player, standing on
\* player, made the moves: a push moves it when the player steps onto it.
RECURSIVE BlockAfter(_, _, _)
BlockAfter(player, box, moves) ==
    IF moves = <<>> THEN box
    ELSE LET m == Head(moves)
             p == add(player, m)
         IN  BlockAfter(p, IF m.push /\ p = box THEN add(box, m) ELSE box, Tail(moves))

\* The cell of the block from start after the moves replayed so far.
Tracked == BlockAfter(Deref(heap, "state").player, plan.start, Played)

\* C11: while a sequence returned by plan_push(S, start, goal) is replayed
\* on a copy of S, after every step every block other than the one from
\* start is on its original cell: the blocks of the copy without the block
\* from start are the blocks of S without the one on start.
C11_OthersStay ==
    (plan.called /\ plan.path # None) =>
        Deref(heap, "copy").boxes \ {Tracked} = Deref(heap, "state").boxes \ {plan.start}

\* A plan with a push was replayed to its end in a state with other blocks,
\* one of them next to a cell the pushed block passed or the player walked.
C11_Witness ==
    /\ plan.called /\ plan.path # None /\ plan.rest = <<>>
    /\ Tracked # plan.start
    /\ Cardinality(Deref(heap, "state").boxes) > 1
    /\ \E b \in Deref(heap, "state").boxes \ {plan.start} :
           dist(b, Deref(heap, "copy").player) = 1 \/ dist(b, Tracked) = 1

\* C12: while a sequence returned by plan_push(S, start, goal) is replayed
\* on a copy of S, once a push was made the block from start is on a cell
\* that is not in level.deadends, and at the end of the replay this cell is
\* goal.
C12_AvoidsDeadends ==
    (plan.called /\ plan.path # None /\ \E i \in DOMAIN Played : Played[i].push) =>
        /\ Tracked \in Deref(heap, "copy").boxes
        /\ Tracked \notin levels[Deref(heap, "state").level].deadends
        /\ plan.rest = <<>> => Tracked = plan.goal

\* With deadends in the level, a plan was replayed to its end that pushed
\* the block at least twice and past a deadend cell.
C12_Witness ==
    /\ plan.called /\ plan.path # None /\ plan.rest = <<>>
    /\ Cardinality({i \in DOMAIN plan.path.list : plan.path.list[i].push}) > 1
    /\ Tracked = plan.goal
    /\ \E d \in levels[Deref(heap, "state").level].deadends :
           dist(d, plan.goal) = 1 \/ dist(d, plan.start) = 1

(***************************************************************************)
(* solver.py.  solve keeps a heap of entries (len(path), count, state,     *)
(* path); the count makes heappop take, among the shortest paths, the one  *)
(* pushed first.  The states of the entries are values here: no entry's    *)
(* state is touched once it is pushed.                                     *)
(***************************************************************************)
USE_FF == FALSE

\* min(reachable(state)), by Python's order of tuples.
MinPos(S) == CHOOSE p \in S : \A q \in S : p = q \/ PosLess(p, q)

\* A fingerprint that takes the history in, which differs from push to
\* push.
fingerprint_of_history(st) == << st.boxes, st.player, st.history >>

\* A fingerprint that, with USE_FF, forgets the boxes.
fingerprint_by_region(st, use_ff) ==
    IF use_ff THEN << MinPos(reachable(st)) >> ELSE << st.boxes, st.player >>

\* A fingerprint of the boxes and the player whatever the flag is.
fingerprint_strict(st, use_ff) == << st.boxes, st.player >>

\* fingerprint(state) while USE_FF has the value use_ff.
fingerprint_by(st, use_ff) ==
    << st.boxes, IF use_ff THEN MinPos(reachable(st)) ELSE st.player >>

fingerprint(st) == fingerprint_by(st, USE_FF)

\* No box of the state is on a deadend; solve does not call it.
solveable(st) == ~\E box \in st.boxes : box \in levels[st.level].deadends

\* state2 = state.copy(); for m in p: state2.move(m): the copy, an object
\* of a heap of its own, after the moves.
RECURSIVE moved(_, _)
moved(H, p) ==
    IF p = <<>> THEN H
    ELSE moved(move(H, "copy", Head(p), TRUE).heap, Tail(p))

state2(st, p) ==
    Deref(moved(State__init__(EmptyHeap, "copy", st.level, st.boxes, st.player,
                              Some(st.history)), p), "copy")

\* The plan alone, without the path that led to the state it was made in.
p2_last(path, p) == p

\* p2 = path + p
p2(path, p) == path \o p

\* heappop(heap): the entry with the least (len(path), count).
SolveLess(a, b) == a.priority < b.priority \/ (a.priority = b.priority /\ a.c < b.c)

\* A pop of the entry pushed last among those with the least len(path).
solve_heappop_newest(queue) ==
    CHOOSE e \in queue : \A f \in queue :
        e = f \/ e.priority < f.priority \/ (e.priority = f.priority /\ e.c > f.c)

solve_heappop(queue) == CHOOSE e \in queue : \A f \in queue : e = f \/ SolveLess(e, f)

\* "for box in state.boxes": the order in which a set is iterated is not
\* specified; the model takes the row-major order or its reverse.
Reverse(s) == [i \in DOMAIN s |-> s[Len(s) + 1 - i]]

BoxOrder(boxes, rev) == IF rev THEN Reverse(Listed(boxes)) ELSE Listed(boxes)

\* The orders that differ: one for a single box.
BoxOrders(boxes) == IF Cardinality(boxes) > 1 THEN BOOLEAN ELSE {FALSE}

\* The loops over the boxes (from the j-th on) and over MOVES (from the
\* i-th on) at the popped (state, path): the heap with the successors
\* pushed, and the count after them.
RECURSIVE solve_expand(_, _, _, _, _, _, _)
solve_expand(st, path, boxes, j, i, queue, c) ==
    IF j > Len(boxes) THEN [queue |-> queue, c |-> c]
    ELSE IF i > Len(MOVES) THEN solve_expand(st, path, boxes, j + 1, 1, queue, c)
    ELSE LET box  == boxes[j]
             pos2 == add(box, MOVES[i])
             p    == IF is_free(st, pos2) /\ ~deadend(st, pos2)
                     THEN plan_push(st, box, pos2) ELSE None
         IN  IF p # None
             THEN solve_expand(st, path, boxes, j, i + 1,
                               queue \cup {[priority |-> Len(p2(path, p.list)), c |-> c,
                                            state |-> state2(st, p.list),
                                            path |-> p2(path, p.list)]},
                               c + 1)
             ELSE solve_expand(st, path, boxes, j, i + 1, queue, c)

\* The while loop of solve; falling out of it returns None.
RECURSIVE solve_loop(_, _, _, _, _)
solve_loop(queue, seen, c, rev, use_ff) ==
    IF queue = {} THEN None
    ELSE LET e == solve_heappop(queue)
             f == fingerprint_by(e.state, use_ff)
         IN  IF f \in seen THEN solve_loop(queue \ {e}, seen, c, rev, use_ff)
             ELSE IF is_solved(e.state) THEN Some(e.path)
             ELSE LET x == solve_expand(e.state, e.path, BoxOrder(e.state.boxes, rev),
                                        1, 1, queue \ {e}, c)
                  IN  solve_loop(x.queue, seen \cup {f}, x.c, rev, use_ff)

\* solve while USE_FF has the value use_ff, after its first statements.
solve_by(st, rev, use_ff) ==
    solve_loop({[priority |-> 0, c |-> 0, state |-> st, path |-> <<>>]}, {}, 1, rev, use_ff)

\* A solve that returns the empty list where the search found no path.
solve_or_empty(st, rev) ==
    LET path == solve_by(st, rev, USE_FF)
    IN  IF path = None THEN Some(<<>>) ELSE path

\* solve after its first statements, level.deadends being set by then.
solve(st, rev) == solve_by(st, rev, USE_FF)

(***************************************************************************)
(* Solving: after some moves in a level, solve is called on the game's     *)
(* state, and the path it returns is replayed on a copy of that state.     *)
(***************************************************************************)
\* Levels to solve: one box next to its goal; two boxes and two goals in a
\* room; a box that bars the way to the other box, with one goal for both.
SolverTexts ==
    << << <<"#","#","#","#","#","#">>,
          <<"#","@","$"," ",".","#">>,
          <<"#","#","#","#","#","#">> >>,
       << <<"#","#","#","#","#","#">>,
          <<"#","@"," "," "," ","#">>,
          <<"#"," ","$","$"," ","#">>,
          <<"#"," ",".","."," ","#">>,
          <<"#","#","#","#","#","#">> >>,
       << <<"#","#","#","#","#","#","#">>,
          <<"#","#","#","#","@","#","#">>,
          <<"#","#","#","#","$","#","#">>,
          <<"#",".","$"," "," "," ","#">>,
          <<"#","#","#","#"," ","#","#">>,
          <<"#","#","#","#","#","#","#">> >> >>

InitSolve ==
    /\ \E i \in DOMAIN SolverTexts :
           LET parsed == load_level(SolverTexts[i])
           IN  /\ levels = << Level__init__(parsed.walls, parsed.goals) >>
               /\ heap = copy(State__init__(EmptyHeap, "initial", 1, parsed.boxes,
                                            parsed.player, None),
                              "initial", "state")
    /\ last = NoCall
    /\ pre = heap
    /\ run = NoRun
    /\ rt = "none"
    /\ plan = NoPlan
    /\ search = NoSearch

\* solve(state) is called: its first statements set level.deadends.
SolveCalled ==
    /\ ~plan.called
    /\ levels' = [levels EXCEPT ![1].deadends = find_deadends(levels[1])]
    /\ plan' = [NoPlan EXCEPT !.called = TRUE, !.solving = TRUE]
    /\ UNCHANGED <<heap, last, pre, run, rt, search>>

\* The rest of solve, which searches the level with these deadends and
\* returns; the caller takes a copy of the state to replay the path on.
SolveReturns ==
    \E rev \in BoxOrders(Deref(heap, "state").boxes) :
        LET path == solve(Deref(heap, "state"), rev)
        IN  /\ plan.solving
            /\ plan' = [plan EXCEPT !.solving = FALSE, !.path = path,
                                    !.rest = IF path = None THEN <<>> ELSE path.list]
            /\ heap' = copy(heap, "state", "copy")
            /\ UNCHANGED <<levels, last, pre, run, rt, search>>

NextSolve == Play \/ SolveCalled \/ SolveReturns \/ Replay

SpecSolve == InitSolve /\ [][NextSolve]_vars

\* C13: whenever solve(S) returns a sequence, replaying it move by move on
\* a copy of S has can_move true at every step and ends in a state where
\* is_solved holds; for an S that is solved already the sequence returned
\* is the empty one, which is not the result None.
C13_SolveReplays ==
    (plan.called /\ ~plan.solving) =>
        /\ plan.path # None =>
               /\ plan.legal
               /\ plan.rest = <<>> => is_solved(Deref(heap, "copy"))
        /\ is_solved(Deref(heap, "state")) => plan.path = Some(<<>>)
        /\ Some(<<>>) # None

\* A path that pushes both boxes of a level was replayed to its end.
C13_Witness ==
    /\ plan.called /\ ~plan.solving /\ plan.path # None /\ plan.rest = <<>>
    /\ Cardinality(Deref(heap, "state").boxes) = 2
    /\ Deref(heap, "state").boxes \cap Deref(heap, "copy").boxes = {}
    /\ ~is_solved(Deref(heap, "state"))
    /\ is_solved(Deref(heap, "copy"))

\* The state after the legal move m, as a value without its history.
Stepped(st, m) ==
    LET player == add(st.player, m)
    IN  State(st.level,
              IF player \in st.boxes THEN push_box(st.boxes, player, m) ELSE st.boxes,
              player)

\* The states that sequences of legal moves lead to from the states of
\* frontier, and those of seen.
RECURSIVE Explored(_, _)
Explored(frontier, seen) ==
    IF frontier = {} THEN seen
    ELSE LET steps == {x \in frontier \X UnitMoves : can_move(x[1], x[2])}
             next  == {Stepped(x[1], x[2]) : x \in steps}
         IN  Explored(next \ (seen \cup frontier), seen \cup frontier)

\* Some sequence of legal moves leads from st to a solved state.
Solvable(st) ==
    \E s \in Explored({State(st.level, st.boxes, st.player)}, {}) : is_solved(s)

\* C14: if some sequence of legal moves leads from S to a solved state,
\* solve(S) returns a sequence and not None, whatever the numbers of blocks
\* and goals of the level.
C14_SolvableIsSolved ==
    (plan.called /\ ~plan.solving /\ plan.path = None) => ~Solvable(Deref(heap, "state"))

\* C15: in every state that legal moves lead to, a push of a block that
\* stands on a cell of find_deadends(level) puts it onto a cell of
\* find_deadends(level); no goal is such a cell, so that from then on the
\* block is on no goal.
C15_DeadendsKeep ==
    LET deadends == find_deadends(levels[Now.level])
    IN  /\ deadends \cap levels[Now.level].goals = {}
        /\ last.op \in {"move", "redo"} =>
               \A b \in (Before.boxes \ Now.boxes) \cap deadends :
                   /\ Now.boxes \ Before.boxes # {}
                   /\ Now.boxes \ Before.boxes \subseteq deadends

\* A block was pushed from a deadend cell, onto which an earlier move had
\* pushed it, to the next one.
C15_Witness ==
    /\ last.op = "move" /\ last.ret = TRUE
    /\ Now.player \in Before.boxes \cap find_deadends(levels[Now.level])
    /\ add(Now.player, last.arg) \in Now.boxes \cap find_deadends(levels[Now.level])
    /\ Now.player \notin Deref(heap, "initial").boxes

(***************************************************************************)
(* Open rooms: a rectangle of floor with walls around it, goals on some of *)
(* its cells and the player in its first cell; the "d" key computes the    *)
(* deadends of the room.                                                   *)
(***************************************************************************)
RoomText(rows, cols, goals) ==
    [r \in 1..(rows + 2) |->
        [c \in 1..(cols + 2) |->
            IF r \in {1, rows + 2} \/ c \in {1, cols + 2} THEN WALL
            ELSE IF r = 2 /\ c = 2
                 THEN (IF Pos(1, 1) \in goals THEN PLAYER_GOAL ELSE PLAYER)
                 ELSE (IF Pos(r - 1, c - 1) \in goals THEN FLOOR_GOAL ELSE FLOOR)]]

RoomInit(rows, cols, goals) ==
    LET parsed == load_level(RoomText(rows, cols, goals))
    IN  /\ levels = << Level__init__(parsed.walls, parsed.goals) >>
        /\ heap = copy(State__init__(EmptyHeap, "initial", 1, parsed.boxes,
                                     parsed.player, None),
                       "initial", "state")
        /\ last = NoCall
        /\ pre = heap
        /\ run = NoRun
        /\ rt = "none"
        /\ plan = NoPlan
        /\ search = NoSearch

InitRooms ==
    \E rows \in 1..MaxRoom, cols \in 1..MaxRoom :
        \E goals \in SUBSET {Pos(r, c) : r \in 1..rows, c \in 1..cols} :
            /\ Cardinality(goals) \in 1..MaxGoals
            /\ RoomInit(rows, cols, goals)

NextRooms == ToggleDeadends

SpecRooms == InitRooms /\ [][NextRooms]_vars

\* The level is an open room: its walls are the border of its grid.
OpenRoom(level) ==
    /\ level.size.r >= 3 /\ level.size.c >= 3
    /\ level.walls = {p \in GridCells(level) :
                         p.r \in {0, level.size.r - 1} \/ p.c \in {0, level.size.c - 1}}

\* The cells of an open room that are no goals and lie in a corner, or next
\* to a wall above or below with no goal in their row, or next to a wall to
\* the left or right with no goal in their column.
RoomDeadends(level) ==
    LET wallV(x) == Pos(x.r - 1, x.c) \in level.walls \/ Pos(x.r + 1, x.c) \in level.walls
        wallH(x) == Pos(x.r, x.c - 1) \in level.walls \/ Pos(x.r, x.c + 1) \in level.walls
        rowGoal(x) == \E g \in level.goals : g.r = x.r
        colGoal(x) == \E g \in level.goals : g.c = x.c
    IN  {x \in (GridCells(level) \ level.walls) \ level.goals :
            \/ wallV(x) /\ wallH(x)
            \/ wallV(x) /\ ~rowGoal(x)
            \/ wallH(x) /\ ~colGoal(x)}

\* C16, as stated: find_deadends on an open room in which every floor cell
\* is connected to a goal returns the empty set.
C16_OpenRoomNoDeadends ==
    (OpenRoom(levels[1]) /\ levels[1].goals # {}) =>
        /\ find_deadends(levels[1]) = {}
        /\ levels[1].deadends = {}

\* C16, amended: find_deadends on an open room with a goal returns the
\* floor cells that are no goals and lie in a corner of the room or next to
\* a wall along which the room has no goal; so it returns the empty set
\* only when the room has no such cell.
C16_OpenRoomDeadends ==
    (OpenRoom(levels[1]) /\ levels[1].goals # {}) =>
        /\ find_deadends(levels[1]) = RoomDeadends(levels[1])
        /\ levels[1].deadends \in {{}, RoomDeadends(levels[1])}

\* The deadends were computed for a room of three rows and columns with a
\* goal in a corner, a goal in the middle and a goal next to one wall: they
\* are the other corners and the cells along the two walls without a goal.
C16_Witness ==
    /\ OpenRoom(levels[1])
    /\ levels[1].size = Pos(5, 5)
    /\ levels[1].goals = {Pos(1, 1), Pos(2, 2), Pos(1, 2)}
    /\ levels[1].deadends = {Pos(1, 3), Pos(2, 3), Pos(3, 3), Pos(3, 2), Pos(3, 1)}

(***************************************************************************)
(* Path finding: after some moves in a level or in an open room without    *)
(* boxes, find_path is called for the game's state and a cell of the grid, *)
(* and the path it returns is replayed move by move on a copy of the       *)
(* state, as move_path of the user interface plays a path.                 *)
(***************************************************************************)
InitPath ==
    \/ GameInit(DOMAIN LevelTexts)
    \/ \E rows \in 1..MaxRoom, cols \in 1..MaxRoom : RoomInit(rows, cols, {})

FindPath ==
    \E goal \in GridCells(levels[1]) :
        LET path == find_path(Deref(heap, "state"), goal)
        IN  /\ ~plan.called
            /\ plan' = [called |-> TRUE, solving |-> FALSE,
                        start |-> Deref(heap, "state").player, goal |-> goal,
                        path |-> path,
                        rest |-> IF path = None THEN <<>> ELSE path.list,
                        legal |-> TRUE]
            /\ heap' = copy(heap, "state", "copy")
            /\ UNCHANGED <<levels, last, pre, run, rt, search>>

NextPath == Play \/ FindPath \/ Replay

SpecPath == InitPath /\ [][NextPath]_vars

\* C17: whenever find_path(S, goal) returns a sequence, all its moves are
\* unit moves without push; replayed on a copy of S, every move is legal,
\* the blocks stay where they are in S, and the replay ends with the mover
\* on goal.
C17_PathReplays ==
    (plan.called /\ plan.path # None) =>
        /\ \A i \in DOMAIN plan.path.list :
               \E j \in DOMAIN MOVES : plan.path.list[i] = MOVES[j]
        /\ plan.legal
        /\ Deref(heap, "copy").boxes = Deref(heap, "state").boxes
        /\ \A i \in DOMAIN Deref(heap, "copy").history :
               i > Len(Deref(heap, "state").history) => ~Deref(heap, "copy").history[i].push
        /\ plan.rest = <<>> => Deref(heap, "copy").player = plan.goal

\* A path of three moves or more with a turn was replayed to its end in a
\* state with a block next to a cell of the path.
C17_Witness ==
    /\ plan.called /\ plan.path # None /\ plan.rest = <<>> /\ plan.legal
    /\ Len(plan.path.list) >= 3
    /\ \E i \in DOMAIN plan.path.list : plan.path.list[i] # plan.path.list[1]
    /\ \E b \in Deref(heap, "state").boxes : dist(b, plan.goal) = 1
    /\ Deref(heap, "copy").player = plan.goal

\* The cells the mover can be on after at most n moves without push.
RECURSIVE Within(_, _)
Within(st, n) ==
    IF n = 0 THEN {st.player}
    ELSE LET W == Within(st, n - 1)
         IN  W \cup {q \in {add(p, MOVES[i]) : p \in W, i \in DOMAIN MOVES} : is_free(st, q)}

\* C18: whenever find_path(S, goal) returns a sequence, its length is the
\* least number of moves without push that take the mover to goal over
\* free cells; in an open room without blocks it is the Manhattan distance
\* of the mover and goal.
C18_ShortestPath ==
    (plan.called /\ plan.path # None) =>
        LET st == Deref(heap, "state")
            n  == Len(plan.path.list)
        IN  /\ plan.goal \in Within(st, n)
            /\ n > 0 => plan.goal \notin Within(st, n - 1)
            /\ (OpenRoom(levels[st.level]) /\ st.boxes = {}) => n = dist(st.player, plan.goal)

\* A path was returned that is longer than the Manhattan distance, as it
\* leads around a block or a wall.
C18_Witness ==
    /\ plan.called /\ plan.path # None
    /\ Len(plan.path.list) > dist(Deref(heap, "state").player, plan.goal)
    /\ plan.goal \in Within(Deref(heap, "state"), Len(plan.path.list))

\* C19: find_path(S, goal) returns None exactly when goal is not in
\* reachable(S), and the empty sequence exactly when goal is the mover's
\* cell; it returns None or a sequence in every case, and the empty
\* sequence is not None.
C19_PathOrNone ==
    plan.called =>
        LET st == Deref(heap, "state")
        IN  /\ plan.path = None <=> plan.goal \notin reachable(st)
            /\ plan.path = Some(<<>>) <=> plan.goal = st.player
            /\ plan.path = None \/ DOMAIN plan.path = {"list"}
            /\ Some(<<>>) # None
            /\ plan.goal \notin reachable(st) <=>
                   \/ plan.goal \in levels[st.level].walls
                   \/ plan.goal \in st.boxes
                   \/ \A n \in 0..Cardinality(GridCells(levels[st.level])) :
                          plan.goal \notin Within(st, n)

\* find_path returned None for a free cell that blocks cut off from the
\* mover.
C19_Witness ==
    /\ plan.called /\ plan.path = None
    /\ is_free(Deref(heap, "state"), plan.goal)
    /\ plan.goal \notin reachable(Deref(heap, "state"))

\* C20: reachable(S) is the least set that holds the mover's cell and, with
\* a cell, its 4-neighbours that are free in S: it holds the mover's cell,
\* is closed under these steps, and each of its cells is reached from the
\* mover's cell by such steps; no wall and no block is in it.
C20_Reachable ==
    LET st == Deref(heap, "state")
        R  == reachable(st)
    IN  /\ st.player \in R
        /\ \A p \in R : \A i \in DOMAIN MOVES :
               is_free(st, add(p, MOVES[i])) => add(p, MOVES[i]) \in R
        /\ R \subseteq Within(st, Cardinality(R))
        /\ R \cap levels[st.level].walls = {}
        /\ R \cap st.boxes = {}

\* Blocks cut the free cells in two parts, and the part of the mover has
\* cells that are two steps or more from the mover.
C20_Witness ==
    LET st == Deref(heap, "state")
    IN  /\ \E p \in GridCells(levels[st.level]) : is_free(st, p) /\ p \notin reachable(st)
        /\ \E p \in reachable(st) : dist(p, st.player) >= 2

(***************************************************************************)
(* reachable, step by step: the flood of reachable as the loop it is, one  *)
(* turn of the loop per step, in levels whose floor the walls enclose and  *)
(* in levels they leave open.  The flood is followed until it has          *)
(* collected MaxSeen cells.                                                *)
(***************************************************************************)
ReachTexts ==
    << << <<"#","#","#">>,
          <<"#","@"," ">>,
          <<"#","#","#">> >>,
       << <<"#","#","#","#","#">>,
          <<"#","@","$"," ","#">>,
          <<"#"," "," "," ","#">>,
          <<"#","#","#","#","#">> >>,
       << <<"#","#","#","#">>,
          <<"#","@","$"," ">>,
          <<"#","#","#","#">> >> >>

InitReach ==
    /\ \E i \in DOMAIN ReachTexts :
           LET parsed == load_level(ReachTexts[i])
           IN  /\ levels = << Level__init__(parsed.walls, parsed.goals) >>
               /\ heap = copy(State__init__(EmptyHeap, "initial", 1, parsed.boxes,
                                            parsed.player, None),
                              "initial", "state")
    /\ last = NoCall
    /\ pre = heap
    /\ run = NoRun
    /\ rt = "none"
    /\ plan = NoPlan
    /\ search = NoSearch

\* A move of the player while no search is running.
PlayFirst == search.op = "none" /\ Play

\* seen = set(); queue = collections.deque([state.player])
ReachCalled ==
    /\ search.op = "none"
    /\ search' = [op |-> "reachable", queue |-> << Deref(heap, "state").player >>,
                  seen |-> {}, ret |-> None]
    /\ UNCHANGED <<levels, heap, last, pre, run, rt, plan>>

\* One turn of the while loop: pos = queue.popleft(); if pos not in seen:
\* seen.add(pos); queue.extend(the free neighbours of pos)
ReachStep ==
    /\ search.op = "reachable" /\ search.ret = None
    /\ search.queue # <<>>
    /\ Cardinality(search.seen) < MaxSeen
    /\ LET pos == Head(search.queue)
       IN  search' = IF pos \in search.seen
                     THEN [search EXCEPT !.queue = Tail(@)]
                     ELSE [search EXCEPT
                              !.queue = Extended(Tail(@), pos, 1,
                                                 Blocked(Deref(heap, "state")), FALSE),
                              !.seen = @ \cup {pos}]
    /\ UNCHANGED <<levels, heap, last, pre, run, rt, plan>>

\* The queue is empty: return seen
ReachReturns ==
    /\ search.op = "reachable" /\ search.ret = None
    /\ search.queue = <<>>
    /\ search' = [search EXCEPT !.ret = [set |-> search.seen]]
    /\ UNCHANGED <<levels, heap, last, pre, run, rt, plan>>

NextReach == PlayFirst \/ ReachCalled \/ ReachStep \/ ReachReturns

SpecReach == InitReach /\ [][NextReach]_vars

\* C21: the cells reachable(S) collects, which are the cells it returns when
\* its loop ends, all lie inside the grid of the level: 0 <= r < size.r and
\* 0 <= c < size.c.
C21_ReachableInGrid ==
    search.op = "reachable" =>
        \A p \in search.seen :
            /\ 0 <= p.r /\ p.r < levels[1].size.r
            /\ 0 <= p.c /\ p.c < levels[1].size.c

(***************************************************************************)
(* solve, turn by turn.  The heap of solve holds its entries by value,     *)
(* save the first, whose state is the State object solve was given; in a   *)
(* turn the popped state is an object of the heap (the given one, or the   *)
(* copy that an earlier turn made), and each state2 is made from it by     *)
(* State.copy and State.move in that heap.                                 *)
(***************************************************************************)
\* for m in p: state2.move(m)
RECURSIVE moves(_, _, _)
moves(H, k, p) ==
    IF p = <<>> THEN H
    ELSE moves(move(H, k, Head(p), TRUE).heap, k, Tail(p))

\* The holder of the popped state of entry e.
popped(e) == IF e.c = 0 THEN "state" ELSE "copy"

\* The heap with the popped state of entry e in it.
Popped(H, e) ==
    IF e.c = 0 THEN H
    ELSE State__init__(H, "copy", e.state.level, e.state.boxes, e.state.player,
                       Some(e.state.history))

\* The loops over the boxes and over MOVES in the turn of entry e: the
\* heap, the queue and the count after them.
RECURSIVE solve_turn(_, _, _, _, _, _, _)
solve_turn(H, e, boxes, j, i, queue, c) ==
    IF j > Len(boxes) THEN [heap |-> H, queue |-> queue, c |-> c]
    ELSE IF i > Len(MOVES) THEN solve_turn(H, e, boxes, j + 1, 1, queue, c)
    ELSE LET st   == Deref(H, popped(e))
             box  == boxes[j]
             pos2 == add(box, MOVES[i])
             p    == IF is_free(st, pos2) /\ ~deadend(st, pos2)
                     THEN plan_push(st, box, pos2) ELSE None
             H2   == moves(copy(H, popped(e), "state2"), "state2", p.list)
         IN  IF p # None
             THEN solve_turn(H2, e, boxes, j, i + 1,
                             queue \cup {[priority |-> Len(p2(e.path, p.list)), c |-> c,
                                          state |-> Deref(H2, "state2"),
                                          path |-> p2(e.path, p.list)]},
                             c + 1)
             ELSE solve_turn(H, e, boxes, j, i + 1, queue, c)

\* solve(state) is called: level.deadends is set, and the heap holds the
\* given state with the empty path.  given and before are the State and
\* the levels as they were at the call, turns the (boxes, player) that the
\* turns so far expanded, turn what the last turn popped and how many
\* entries it pushed, and prev the same of the turn before it.
SolveStarts ==
    \E rev \in BoxOrders(Deref(heap, "state").boxes) :
        /\ search.op = "none"
        /\ levels' = [levels EXCEPT ![1].deadends = find_deadends(levels[1])]
        /\ search' = [op |-> "solve", rev |-> rev, done |-> FALSE, ret |-> None,
                      queue |-> {[priority |-> 0, c |-> 0,
                                  state |-> Deref(heap, "state"), path |-> <<>>]},
                      seen |-> {}, c |-> 1,
                      given |-> Deref(heap, "state"), before |-> levels,
                      turns |-> <<>>, turn |-> None, prev |-> None]
        /\ UNCHANGED <<heap, last, pre, run, rt, plan>>

\* One turn of the while loop: pop; skip a fingerprint seen before; return
\* the path of a solved state; else push the successors.
SolveTurn ==
    /\ search.op = "solve" /\ ~search.done /\ search.queue # {}
    /\ LET e  == solve_heappop(search.queue)
           H  == Popped(heap, e)
           st == Deref(H, popped(e))
           f  == fingerprint(st)
           x  == solve_turn(H, e, BoxOrder(st.boxes, search.rev), 1, 1,
                            search.queue \ {e}, search.c)
       IN  IF f \in search.seen
           THEN /\ search' = [search EXCEPT !.queue = @ \ {e},
                                            !.turn = [state |-> st, pushed |-> 0,
                                                      expanded |-> FALSE,
                                                      priority |-> e.priority,
                                                      c |-> e.c, path |-> e.path],
                                            !.prev = search.turn]
                /\ heap' = heap
           ELSE IF is_solved(st)
           THEN /\ search' = [search EXCEPT !.queue = @ \ {e},
                                            !.done = TRUE, !.ret = Some(e.path),
                                            !.turn = [state |-> st, pushed |-> 0,
                                                      expanded |-> FALSE,
                                                      priority |-> e.priority,
                                                      c |-> e.c, path |-> e.path],
                                            !.prev = search.turn]
                /\ heap' = heap
           ELSE /\ search' = [search EXCEPT !.queue = x.queue, !.c = x.c,
                                            !.seen = @ \cup {f},
                                            !.turns = Append(@, <<st.boxes, st.player>>),
                                            !.turn = [state |-> st,
                                                      pushed |-> x.c - search.c,
                                                      expanded |-> TRUE,
                                                      priority |-> e.priority,
                                                      c |-> e.c, path |-> e.path],
                                            !.prev = search.turn]
                /\ heap' = x.heap
    /\ UNCHANGED <<levels, last, pre, run, rt, plan>>

\* The heap is empty: the loop ends and solve returns None.
SolveFails ==
    /\ search.op = "solve" /\ ~search.done /\ search.queue = {}
    /\ search' = [search EXCEPT !.done = TRUE, !.ret = None]
    /\ UNCHANGED <<levels, heap, last, pre, run, rt, plan>>

\* solve has returned; the caller takes a copy of the state to replay the
\* path on.
SolveReturned ==
    /\ search.op = "solve" /\ search.done /\ ~plan.called
    /\ plan' = [NoPlan EXCEPT !.called = TRUE, !.path = search.ret,
                              !.rest = IF search.ret = None THEN <<>>
                                       ELSE search.ret.list]
    /\ heap' = copy(heap, "state", "copy")
    /\ UNCHANGED <<levels, last, pre, run, rt, search>>

\* A room with one box and two goals, which no search can solve: it ends
\* when every state within reach has been expanded.
TurnsText ==
    << <<"#","#","#","#","#","#">>,
       <<"#","@"," "," "," ","#">>,
       <<"#"," ","$"," "," ","#">>,
       <<"#"," ","."," ",".","#">>,
       <<"#","#","#","#","#","#">> >>

InitTurns ==
    \/ InitSolve
    \/ /\ LET parsed == load_level(TurnsText)
           IN  /\ levels = << Level__init__(parsed.walls, parsed.goals) >>
               /\ heap = copy(State__init__(EmptyHeap, "initial", 1, parsed.boxes,
                                            parsed.player, None),
                              "initial", "state")
       /\ last = NoCall
       /\ pre = heap
       /\ run = NoRun
       /\ rt = "none"
       /\ plan = NoPlan
       /\ search = NoSearch

NextTurns == PlayFirst \/ SolveStarts \/ SolveTurn \/ SolveFails \/ SolveReturned \/ Replay

SpecTurns == InitTurns /\ [][NextTurns]_vars

\* C22: a search leaves the State it is given as it was: while solve runs
\* (its turns calling plan_push, which calls find_path) and after it has
\* returned, the block set, the mover position, the history and the redo
\* stack of the given State are those at the call, and of the level only
\* the deadends have changed, which are those of find_deadends.
C22_GivenStateKept ==
    search.op = "solve" =>
        /\ Deref(heap, "state").boxes = search.given.boxes
        /\ Deref(heap, "state").player = search.given.player
        /\ Deref(heap, "state").history = search.given.history
        /\ Deref(heap, "state").redoable = search.given.redoable
        /\ [levels[1] EXCEPT !.deadends = {}] = [search.before[1] EXCEPT !.deadends = {}]
        /\ levels[1].deadends = find_deadends(search.before[1])

\* solve has returned a path of several moves for a state with a history,
\* after turns that pushed successors, and has set the deadends.
C22_Witness ==
    /\ search.op = "solve" /\ search.done
    /\ search.ret # None /\ Len(search.ret.list) > 1
    /\ Len(search.turns) > 1
    /\ search.given.history # <<>>
    /\ levels[1].deadends # search.before[1].deadends

(***************************************************************************)
(* Solving rooms with one box and one goal: solve is called on the initial *)
(* state of a room enclosed by walls, for every place of the player, the   *)
(* box and the goal in it.                                                 *)
(***************************************************************************)
OneText(rows, cols, player, box, goal) ==
    [r \in 1..(rows + 2) |->
        [c \in 1..(cols + 2) |->
            LET p == Pos(r - 1, c - 1)
            IN  IF r \in {1, rows + 2} \/ c \in {1, cols + 2} THEN WALL
                ELSE IF p = player THEN (IF p = goal THEN PLAYER_GOAL ELSE PLAYER)
                ELSE IF p = box THEN (IF p = goal THEN BOX_GOAL ELSE BOX)
                ELSE IF p = goal THEN FLOOR_GOAL ELSE FLOOR]]

InitOne ==
    \E rows \in 1..MaxRoom, cols \in 1..MaxRoom :
        \E player, box, goal \in {Pos(r, c) : r \in 1..rows, c \in 1..cols} :
            /\ player # box
            /\ LET parsed == load_level(OneText(rows, cols, player, box, goal))
               IN  /\ levels = << Level__init__(parsed.walls, parsed.goals) >>
                   /\ heap = copy(State__init__(EmptyHeap, "initial", 1, parsed.boxes,
                                                parsed.player, None),
                                  "initial", "state")
            /\ last = NoCall
            /\ pre = heap
            /\ run = NoRun
            /\ rt = "none"
            /\ plan = NoPlan
            /\ search = NoSearch

NextOne == SolveCalled \/ SolveReturns \/ Replay

SpecOne == InitOne /\ [][NextOne]_vars

\* solve has returned for the room as it was loaded.
OneSolved == plan.called /\ ~plan.solving

TheBox == CHOOSE b \in Deref(heap, "state").boxes : TRUE

TheGoal == CHOOSE g \in levels[1].goals : TRUE

\* C23 as stated: in a level with one block and one goal, the block next
\* to the goal in its row or column, solve returns a sequence of length 1
\* that is a single push.
C23_AdjacentOnePush ==
    (OneSolved /\ dist(TheBox, TheGoal) = 1) =>
        /\ plan.path # None
        /\ Len(plan.path.list) = 1
        /\ plan.path.list[1].push

\* C23: in a level with one block and one goal, the block next to the goal
\* in its row or column and the mover on the cell on the other side of the
\* block, solve returns a sequence of length 1 that is a single push, the
\* push of the block onto the goal; with the mover elsewhere the sequence,
\* if there is one, is longer and ends with a push onto the goal.
C23_BehindOnePush ==
    (OneSolved /\ dist(TheBox, TheGoal) = 1) =>
        LET m == Mv(TheGoal.r - TheBox.r, TheGoal.c - TheBox.c, TRUE)
        IN  IF Deref(heap, "state").player = add(TheBox, inv(m))
            THEN plan.path = Some(<< m >>)
            ELSE plan.path # None =>
                     /\ Len(plan.path.list) > 1
                     /\ plan.path.list[Len(plan.path.list)].push

\* solve has returned the single push for a mover behind the block, in a
\* room where the block could be pushed on another way as well.
C23_Witness ==
    /\ OneSolved /\ plan.rest = <<>>
    /\ dist(TheBox, TheGoal) = 1
    /\ Deref(heap, "state").player = add(TheBox, Mv(TheBox.r - TheGoal.r, TheBox.c - TheGoal.c, FALSE))
    /\ plan.path # None /\ Len(plan.path.list) = 1
    /\ levels[1].size = Pos(5, 5)
    /\ TheGoal \in Deref(heap, "copy").boxes

\* Walls on two perpendicular sides of the cell.
Corner(level, p) ==
    \E v \in {Mv(-1, 0, FALSE), Mv(1, 0, FALSE)}, h \in {Mv(0, -1, FALSE), Mv(0, 1, FALSE)} :
        add(p, v) \in level.walls /\ add(p, h) \in level.walls

\* C24: for a level whose only block stands in a corner (walls on two
\* perpendicular sides) that is not a goal, the goal being elsewhere, solve
\* ends and returns None, wherever the mover stands.
C24_CornerNoSolution ==
    (OneSolved /\ Corner(levels[1], TheBox) /\ TheBox # TheGoal) => plan.path = None

\* solve has returned None for a block in a corner of a room of some width
\* and height, the mover standing next to it.
C24_Witness ==
    /\ OneSolved /\ Corner(levels[1], TheBox) /\ TheBox # TheGoal
    /\ plan.path = None
    /\ levels[1].size = Pos(5, 5)
    /\ dist(Deref(heap, "state").player, TheBox) = 1
    /\ dist(TheGoal, TheBox) > 1

\* SolveTurn is enabled: the loop has an entry to pop.
TurnEnabled == search.op = "solve" /\ ~search.done /\ search.queue # {}

\* A step of SolveTurn: no other action changes the search while
\* TurnEnabled holds, and every turn pops an entry.
TurnTaken == TurnEnabled /\ search' # search

\* solve runs on once it is called: the while loop takes its next turn, and
\* returns None when the heap is empty.  The first condition is
\* WF_vars(SolveTurn), which is []<>(~ENABLED <<SolveTurn>>_vars \/
\* <<SolveTurn>>_vars), with TurnEnabled and TurnTaken for the two.
SpecTurnsFair ==
    /\ SpecTurns
    /\ ([]<>~TurnEnabled) \/ ([]<><<TurnTaken>>_vars)
    /\ WF_vars(SolveFails)

\* No (boxes, player) was expanded by two turns of the search.
ExpandedOnce ==
    search.op = "solve" =>
        \A i, j \in DOMAIN search.turns : search.turns[i] = search.turns[j] => i = j

\* C25: in a level whose floor is enclosed by walls solve ends, whatever
\* state it is called on: no fingerprint (block set, mover position) is
\* expanded by two turns, every turn (with its calls of plan_push and
\* find_path) ends, and the search comes to a turn that pops a solved
\* state or to an empty queue, where it returns.
C25_SolveEnds ==
    /\ []ExpandedOnce
    /\ (search.op = "solve") ~> (search.op = "solve" /\ search.done)

\* A search that skipped an entry whose fingerprint an earlier turn had
\* expanded has ended with an empty queue after several turns.
C25_Witness ==
    /\ search.op = "solve" /\ search.done /\ search.ret = None
    /\ search.queue = {}
    /\ Len(search.turns) > 3
    /\ ~search.turn.expanded
    /\ <<search.turn.state.boxes, search.turn.state.player>> \in
           {search.turns[i] : i \in DOMAIN search.turns}

LevelChars == {WALL, PLAYER, PLAYER_GOAL, BOX, BOX_GOAL, FLOOR_GOAL, FLOOR}

LoadTexts ==
    {<< line >> : line \in UNION {[1..n -> LevelChars] : n \in 0..MaxChars}}
        \cup {LevelTexts[i] : i \in DOMAIN LevelTexts}

InitLoad ==
    /\ \E lines \in LoadTexts :
           search = [op |-> "load_level", lines |-> lines, scanned |-> {},
                     walls |-> {}, goals |-> {}, boxes |-> {}, player |-> None,
                     built |-> FALSE, raised |-> FALSE]
    /\ levels = << >>
    /\ heap = EmptyHeap
    /\ last = NoCall
    /\ pre = heap
    /\ run = NoRun
    /\ rt = "none"
    /\ plan = NoPlan

\* One turn of the loops over the lines and their characters.
ScanChar ==
    /\ search.op = "load_level" /\ search.scanned # Cells(search.lines)
    /\ LET p    == CHOOSE q \in Cells(search.lines) \ search.scanned :
                       \A o \in Cells(search.lines) \ search.scanned :
                           o = q \/ ScannedBefore(q, o)
           char == CharAt(search.lines, p)
       IN  search' = [search EXCEPT
                         !.scanned = @ \cup {p},
                         !.walls   = IF char \in {WALL} THEN @ \cup {p} ELSE @,
                         !.goals   = IF char \in {PLAYER_GOAL, BOX_GOAL, FLOOR_GOAL}
                                     THEN @ \cup {p} ELSE @,
                         !.boxes   = IF char \in {BOX, BOX_GOAL} THEN @ \cup {p} ELSE @,
                         !.player  = IF char \in {PLAYER, PLAYER_GOAL} THEN p ELSE @]
    /\ UNCHANGED <<levels, heap, last, pre, run, rt, plan>>

\* return Level(walls, goals, boxes, player): the size is taken from the
\* walls, and the initial State is made of the boxes and the player.
LevelBuilt ==
    /\ search.op = "load_level" /\ search.scanned = Cells(search.lines)
    /\ ~search.built /\ ~search.raised
    /\ search.walls # {}
    /\ levels' = << Level__init__(search.walls, search.goals) >>
    /\ heap' = State__init__(heap, "initial", 1, search.boxes, search.player, None)
    /\ search' = [search EXCEPT !.built = TRUE]
    /\ UNCHANGED <<last, pre, run, rt, plan>>

\* max() of no walls raises ValueError in Level.__init__.
LevelRaises ==
    /\ search.op = "load_level" /\ search.scanned = Cells(search.lines)
    /\ ~search.built /\ ~search.raised
    /\ search.walls = {}
    /\ search' = [search EXCEPT !.raised = TRUE]
    /\ UNCHANGED <<levels, heap, last, pre, run, rt, plan>>

NextLoad == ScanChar \/ LevelBuilt \/ LevelRaises

SpecLoad == InitLoad /\ [][NextLoad]_vars

\* C27: building a Level and its initial State from a text without a mover
\* ends in an error, so that every State load_level and Level.__init__
\* make has a mover position.
C27_MoverDefined ==
    /\ (search.op = "load_level" /\ search.built) => Deref(heap, "initial").player # None
    /\ (search.op = "load_level" /\ search.scanned = Cells(search.lines)
           /\ search.player = None /\ (search.built \/ search.raised)) => search.raised

\* C28: a turn of solve that pops a state with a block on a deadend cell
\* drops it: the turn does not expand the state and pushes no successor of
\* it, as the first turn does when the state given to solve has a block
\* on a deadend.
C28_DeadendNodeDropped ==
    (search.op = "solve" /\ search.turn # None /\ ~solveable(search.turn.state)) =>
        /\ ~search.turn.expanded
        /\ search.turn.pushed = 0

(***************************************************************************)
(* The deadends of the rooms and of the level texts of the game and of the *)
(* solver, set and cleared by the "d" key.                                 *)
(***************************************************************************)
InitDeadends == InitRooms \/ Init \/ InitSolve

NextDeadends == ToggleDeadends

SpecDeadends == InitDeadends /\ [][NextDeadends]_vars

\* The cells reached from the cells of S by steps to a 4-neighbour that is
\* no wall and, with buffer, has no wall behind it in the direction of the
\* step.
RECURSIVE Stepped_to(_, _, _)
Stepped_to(S, level, buffer) ==
    LET steps == {x \in S \X DOMAIN MOVES :
                     /\ add(x[1], MOVES[x[2]]) \notin level.walls
                     /\ buffer => add(add(x[1], MOVES[x[2]]), MOVES[x[2]]) \notin level.walls}
        T     == S \cup {add(x[1], MOVES[x[2]]) : x \in steps}
    IN  IF T = S THEN S ELSE Stepped_to(T, level, buffer)

\* C29: find_deadends(level) is F minus P, F being the cells reached from
\* the goals by steps to a 4-neighbour that is no wall, and P the cells
\* reached from the goals by steps from p in direction m to p+m taken only
\* when p+m and p+2m are both no wall.
C29_FloorMinusPulled ==
    LET F == Stepped_to(levels[1].goals, levels[1], FALSE)
        P == Stepped_to(levels[1].goals, levels[1], TRUE)
    IN  /\ find_deadends(levels[1]) = F \ P
        /\ levels[1].deadends # {} => levels[1].deadends = F \ P

\* The deadends are set in a level where P holds more than the goals and
\* F more than P and the goals, and some deadend is not next to two walls.
C29_Witness ==
    /\ levels[1].deadends # {}
    /\ Stepped_to(levels[1].goals, levels[1], TRUE) # levels[1].goals
    /\ levels[1].deadends # Stepped_to(levels[1].goals, levels[1], FALSE) \ levels[1].goals
    /\ \E p \in levels[1].deadends : ~Corner(levels[1], p)

\* The boxes of st on deadends all stood there when solve was called.
OnlyGivenOnDeadends(st) ==
    \A b \in st.boxes : b \in levels[1].deadends => b \in search.given.boxes

\* C30: solve moves no block onto a deadend cell: in the state a turn
\* pops, in every state the search has in its queue, and after every step
\* of the replay of the path it returns, a block that stands on a deadend
\* cell stood on that cell in the state solve was called on.
C30_NoBlockOntoDeadend ==
    search.op = "solve" =>
        /\ \A e \in search.queue : OnlyGivenOnDeadends(e.state)
        /\ search.turn # None => OnlyGivenOnDeadends(search.turn.state)
        /\ plan.called => OnlyGivenOnDeadends(Deref(heap, "copy"))

\* A path returned for a state with a block on a deadend has been replayed
\* to its end, and has pushed another block.
C30_Witness ==
    /\ search.op = "solve" /\ search.done /\ search.ret # None
    /\ plan.called /\ plan.rest = <<>>
    /\ search.given.boxes \cap levels[1].deadends # {}
    /\ Deref(heap, "copy").boxes # search.given.boxes
    /\ Len(search.turns) > 0

\* C31: solve pops its entries in the order of the length of their paths,
\* never a shorter path after a longer one, and entries with paths of the
\* same length in the order they were pushed; every entry left in the heap
\* comes after the one popped in that order; the priority of an entry is
\* the length of its path, and the first entry popped is the given state
\* with the empty path.
C31_PopOrder ==
    (search.op = "solve" /\ search.turn # None) =>
        /\ \A e \in search.queue :
               /\ e.priority = Len(e.path)
               /\ \/ search.turn.priority < e.priority
                  \/ (search.turn.priority = e.priority /\ search.turn.c < e.c)
        /\ search.turn.priority = Len(search.turn.path)
        /\ IF search.prev = None
           THEN /\ search.turn.path = <<>>
                /\ search.turn.state = search.given
           ELSE \/ search.prev.priority < search.turn.priority
                \/ (search.prev.priority = search.turn.priority
                      /\ search.prev.c < search.turn.c)

\* A turn popped an entry with a path as long as that of the entry popped
\* before it, while entries with longer paths wait in the heap.
C31_Witness ==
    /\ search.op = "solve" /\ search.turn # None /\ search.prev # None
    /\ search.prev.priority = search.turn.priority
    /\ search.prev.c + 1 < search.turn.c
    /\ \E e \in search.queue : e.priority > search.turn.priority

\* The (player, box) that one legal move leads to from those of S, the
\* move being a step of the player onto a free cell or a push of the block
\* from start onto a free cell that is no deadend; the other blocks of st
\* stay where they are.
PushStepped(st, start, S) ==
    LET others == levels[st.level].walls \cup (st.boxes \ {start})
        steps  == {x \in S \X DOMAIN MOVES :
                      LET player == add(x[1].player, MOVES[x[2]])
                          box    == add(x[1].box, MOVES[x[2]])
                      IN  /\ player \notin others
                          /\ player = x[1].box =>
                                 /\ box \notin others
                                 /\ box \notin levels[st.level].deadends}
    IN  {[player |-> add(x[1].player, MOVES[x[2]]),
          box    |-> IF add(x[1].player, MOVES[x[2]]) = x[1].box
                     THEN add(x[1].box, MOVES[x[2]]) ELSE x[1].box] : x \in steps}

\* The least number of such moves after which the block is on goal, from
\* the (player, box) of frontier on, n moves being made and seen being
\* reached by them; None if no number of moves brings it there.
RECURSIVE ShortestPush(_, _, _, _, _, _)
ShortestPush(st, start, goal, frontier, seen, n) ==
    IF \E x \in frontier : x.box = goal THEN [len |-> n]
    ELSE IF frontier = {} THEN None
    ELSE LET next_ == PushStepped(st, start, frontier) \ seen
         IN  ShortestPush(st, start, goal, next_, seen \cup next_, n + 1)

\* That number for the call of plan_push that was made.
PlanShortest ==
    LET st == Deref(heap, "state")
        x0 == {[player |-> st.player, box |-> plan.start]}
    IN  ShortestPush(st, plan.start, plan.goal, x0, x0, 0)

\* C32: a sequence that plan_push(S, start, goal) returns is one of the
\* shortest: no sequence of fewer legal moves from S pushes the block from
\* start alone, onto cells that are no deadends, and ends with it on goal.
C32_ShortestPlan ==
    (plan.called /\ plan.path # None) =>
        /\ PlanShortest # None
        /\ Len(plan.path.list) = PlanShortest.len

\* A plan of several pushes with walks in between was returned, in a state
\* with another block and a level with deadends, for a goal further away in
\* moves than in cells.
C32_Witness ==
    /\ plan.called /\ plan.path # None
    /\ Cardinality({i \in DOMAIN plan.path.list : plan.path.list[i].push}) > 1
    /\ Len(plan.path.list) > dist(plan.start, plan.goal) + 2
    /\ Cardinality(Deref(heap, "state").boxes) > 1
    /\ levels[1].deadends # {}

\* C33: plan_push(S, start, goal) returns None only when no sequence of
\* legal moves from S pushes the block from start alone, onto cells that
\* are no deadends, and brings it to goal; every call returns a sequence or
\* None.
C33_NoneIffNoPlan ==
    plan.called =>
        /\ plan.path = None => PlanShortest = None
        /\ plan.path # None => plan.path.list \in Seq({MOVES[i] : i \in DOMAIN MOVES}
                                                     \cup {MOVES_P[i] : i \in DOMAIN MOVES_P})

\* None was returned for a goal that is free and no deadend, which the
\* block would reach if the player could get behind it.
C33_Witness ==
    /\ plan.called /\ plan.path = None
    /\ is_free(Deref(heap, "state"), plan.goal)
    /\ plan.goal \notin levels[1].deadends
    /\ dist(plan.start, plan.goal) = 1
    /\ Len(Deref(heap, "state").history) > 0

(***************************************************************************)
(* Fingerprints: two states of a room, each with up to two boxes and a     *)
(* player on a cell without a box, and fingerprint called on both while    *)
(* USE_FF has one of its values.                                           *)
(***************************************************************************)
PrintRows == {1, 2}

InitPrints ==
    /\ \E rows \in PrintRows, cols \in 1..MaxRoom :
           LET parsed == load_level(RoomText(rows, cols, {}))
               cells  == {Pos(r, c) : r \in 1..rows, c \in 1..cols}
           IN  \E boxes, boxes2 \in {B \in SUBSET cells : Cardinality(B) <= 2} :
                   \E player \in cells \ boxes, player2 \in cells \ boxes2 :
                       /\ levels = << Level__init__(parsed.walls, parsed.goals) >>
                       /\ heap = State__init__(
                                     State__init__(EmptyHeap, "state", 1, boxes, player, None),
                                     "copy", 1, boxes2, player2, None)
    /\ last = NoCall
    /\ pre = heap
    /\ run = NoRun
    /\ rt = "none"
    /\ plan = NoPlan
    /\ search = NoSearch

\* fingerprint is called on the two states.
Fingerprint ==
    \E use_ff \in BOOLEAN :
        /\ search.op = "none"
        /\ search' = [op |-> "fingerprint", use_ff |-> use_ff,
                      ret |-> fingerprint_by(Deref(heap, "state"), use_ff),
                      ret2 |-> fingerprint_by(Deref(heap, "copy"), use_ff)]
        /\ UNCHANGED <<levels, heap, last, pre, run, rt, plan>>

NextPrints == Fingerprint

SpecPrints == InitPrints /\ [][NextPrints]_vars

\* C34: with USE_FF true two states of a level have the same fingerprint
\* iff they have the same blocks and each mover is on a cell that
\* reachable returns for the other state; with USE_FF false iff they have
\* the same blocks and the same mover cell.
C34_Fingerprints ==
    search.op = "fingerprint" =>
        LET s == Deref(heap, "state")
            t == Deref(heap, "copy")
        IN  search.ret = search.ret2
                <=> /\ s.boxes = t.boxes
                    /\ IF search.use_ff
                       THEN s.player \in reachable(t) /\ t.player \in reachable(s)
                       ELSE s.player = t.player

\* With USE_FF true: two states with the same two blocks and movers on
\* different cells that reach one another.
C34_Witness ==
    /\ search.op = "fingerprint" /\ search.use_ff
    /\ search.ret = search.ret2
    /\ Deref(heap, "state").boxes = Deref(heap, "copy").boxes
    /\ Cardinality(Deref(heap, "state").boxes) = 2
    /\ Deref(heap, "state").player # Deref(heap, "copy").player
    /\ \E p \in GridCells(levels[1]) :
           is_free(Deref(heap, "state"), p) /\ p \notin reachable(Deref(heap, "state"))


\* ---------------------------------------------------------------------
\* solve under both values of USE_FF
\* ---------------------------------------------------------------------

\* A level whose box has to be taken into the room on the right and pushed
\* back before it can go to its goal on the left.
ModesText ==
    << <<"#","#","#","#","#","#","#","#","#">>,
       <<"#","."," ","@","$"," "," "," ","#">>,
       <<"#","#","#","#","#"," "," "," ","#">>,
       <<"#","#","#","#","#","#","#","#","#">> >>

InitModes ==
    \/ InitTurns
    \/ /\ LET parsed == load_level(ModesText)
          IN  /\ levels = << Level__init__(parsed.walls, parsed.goals) >>
              /\ heap = copy(State__init__(EmptyHeap, "initial", 1, parsed.boxes,
                                           parsed.player, None),
                             "initial", "state")
       /\ last = NoCall
       /\ pre = heap
       /\ run = NoRun
       /\ rt = "none"
       /\ plan = NoPlan
       /\ search = NoSearch

\* solve(state) runs to its end once with USE_FF false and once with
\* USE_FF true, on the same state and with the same deadends.
SolveModes ==
    \E rev \in BoxOrders(Deref(heap, "state").boxes) :
        /\ plan.solving
        /\ search.op = "none"
        /\ search' = [op |-> "modes", rev |-> rev,
                      strict |-> solve_by(Deref(heap, "state"), rev, FALSE),
                      ff |-> solve_by(Deref(heap, "state"), rev, TRUE)]
        /\ UNCHANGED <<levels, heap, last, pre, run, rt, plan>>

NextModes == PlayFirst \/ SolveCalled \/ SolveModes

SpecModes == InitModes /\ [][NextModes]_vars

\* C35: for every state, solve with the aggressive fingerprint (USE_FF
\* true) returns a solution exactly when solve with the strict fingerprint
\* (USE_FF false) returns one.
C35_ModesAgree ==
    search.op = "modes" => ((search.ff = None) <=> (search.strict = None))

\* Both modes found a solution of a state played to, whose mover is not
\* the least cell of its region, so that the two fingerprints differ.
C35_Witness ==
    /\ search.op = "modes"
    /\ search.ff # None /\ search.strict # None
    /\ Len(search.strict.list) > 0
    /\ Deref(heap, "state").history # <<>>
    /\ MinPos(reachable(Deref(heap, "state"))) # Deref(heap, "state").player


\* ---------------------------------------------------------------------
\* Level.replay
\* ---------------------------------------------------------------------

\* The loop of Level.replay from move number i on: the assertion, then the
\* move, on the state held by k.
RECURSIVE replay_loop(_, _, _, _)
replay_loop(H, k, path, i) ==
    IF i > Len(path) THEN [heap |-> H, ret |-> k, exc |-> FALSE]
    ELSE IF ~can_move(Deref(H, k), path[i]) THEN [heap |-> H, ret |-> None, exc |-> TRUE]
    ELSE replay_loop(move(H, k, path[i], TRUE).heap, k, path, i + 1)

\* Level.replay(moves), the state it creates held by k.
replay(H, k, path) == replay_loop(copy(H, "initial", k), k, path, 1)

\* level.replay(state.history) is called for the game's state.
LevelReplay ==
    /\ Call("replay", "state2", Some(Deref(heap, "state").history),
            replay(heap, "state2", Deref(heap, "state").history))
    /\ UNCHANGED <<run, rt, plan>>

\* The calls on the game's state before the history is replayed.
PlayBefore == last.op # "replay" /\ (Move \/ Undo \/ Redo)

NextReplay == PlayBefore \/ LevelReplay

SpecReplay == Init /\ [][NextReplay]_vars

\* C36: after any sequence of move, undo and redo on a copy of the level's
\* initial state, Level.replay of the state's history passes its assertion
\* at every step and returns a state with the block set and the mover
\* position of the state.
C36_ReplayReproduces ==
    last.op = "replay" =>
        /\ ~last.exc
        /\ last.ret = "state2"
        /\ Deref(heap, "state2").boxes = Deref(heap, "state").boxes
        /\ Deref(heap, "state2").player = Deref(heap, "state").player

\* The history replayed has a push and a walk left after an undo, with a
\* move to redo, and the blocks are not where the level has them.
C36_Witness ==
    /\ last.op = "replay"
    /\ \E i \in DOMAIN last.arg.list : last.arg.list[i].push
    /\ \E i \in DOMAIN last.arg.list : ~last.arg.list[i].push
    /\ Deref(heap, "state").redoable # <<>>
    /\ Deref(heap, "state").boxes # Deref(heap, "initial").boxes


\* C37: the number of blocks never changes: after any sequence of move,
\* undo and redo from the initial state of a level, the block set of the
\* state has as many cells as the block set of the initial state.
C37_BlockCount ==
    Cardinality(Deref(heap, "state").boxes) = Cardinality(Deref(heap, "initial").boxes)

\* A push in a level of two blocks was undone and done again, and another
\* push is behind it in the history.
C37_Witness ==
    /\ last.op = "redo" /\ last.after = "undo"
    /\ Cardinality(Deref(heap, "state").boxes) = 2
    /\ Len(Deref(heap, "state").history) >= 2
    /\ \A i \in DOMAIN Deref(heap, "state").history : Deref(heap, "state").history[i].push
    /\ Deref(heap, "state").boxes \cap Deref(heap, "initial").boxes = {}


\* C38: for every level, find_deadends(level) contains no goal cell and no
\* wall cell.
C38_DeadendsOffGoalsAndWalls ==
    levels[1].deadends \cap (levels[1].goals \cup levels[1].walls) = {}

\* find_deadends returned cells of a level with two goals or more, one of
\* them next to a goal and one of them next to a wall.
C38_Witness ==
    /\ Cardinality(levels[1].goals) >= 2
    /\ \E d \in levels[1].deadends, i \in DOMAIN MOVES : add(d, MOVES[i]) \in levels[1].goals
    /\ \E d \in levels[1].deadends, i \in DOMAIN MOVES : add(d, MOVES[i]) \in levels[1].walls


(***************************************************************************)
(* model.py: SokobanGame.  The game's fields number and snapshot are kept  *)
(* in a record g, its field state is the object "state" of the heap; the   *)
(* initial_state of level number n is the object InitialState(n).          *)
(***************************************************************************)
InitialState(n) == IF n = 0 THEN "initial" ELSE "state2"

\* A reference to the State object k, in a field that may be None.
Ref(k) == [ref |-> k]

\* A level number as the argument of load_level, which may be None.
Number(n) == [number |-> n]

\* SokobanGame.load_level(number); number is None for a reload.
SokobanGame_load_level(H, g, number) ==
    LET g1 == IF number # None
              THEN [g EXCEPT !.number = number.number, !.snapshot = None]
              ELSE g
    IN  [heap |-> copy(H, InitialState(g1.number), "state"), game |-> g1]

\* A snapshot that is the state itself instead of a copy of it.
SokobanGame_save_snapshot_bound(H, g) ==
    [heap |-> H, game |-> [g EXCEPT !.snapshot = Ref("state")]]

\* SokobanGame.save_snapshot: the copy is the object "copy".
SokobanGame_save_snapshot(H, g) ==
    [heap |-> copy(H, "state", "copy"), game |-> [g EXCEPT !.snapshot = Ref("copy")]]

\* SokobanGame.load_snapshot.
SokobanGame_load_snapshot(H, g) ==
    IF g.snapshot # None
    THEN [heap |-> copy(H, g.snapshot.ref, "state"), game |-> g]
    ELSE [heap |-> H, game |-> g]

\* The level texts of the game's level set.
GameTexts == << LevelTexts[3], SolverTexts[1] >>

\* SokobanGame.__init__ on the levels of GameTexts; saved is the state as
\* it was at the last save_snapshot and loads the number of load_snapshot
\* calls since.
InitGame ==
    /\ levels = [n \in DOMAIN GameTexts |->
                    Level__init__(load_level(GameTexts[n]).walls,
                                  load_level(GameTexts[n]).goals)]
    /\ LET H1 == State__init__(EmptyHeap, InitialState(0), 1,
                               load_level(GameTexts[1]).boxes,
                               load_level(GameTexts[1]).player, None)
           H2 == State__init__(H1, InitialState(1), 2,
                               load_level(GameTexts[2]).boxes,
                               load_level(GameTexts[2]).player, None)
           g  == [op |-> "game", number |-> 0, snapshot |-> None,
                  saved |-> None, loads |-> 0]
       IN  /\ heap = SokobanGame_load_level(H2, g, None).heap
           /\ search = SokobanGame_load_level(H2, g, None).game
    /\ last = NoCall
    /\ pre = heap
    /\ run = NoRun
    /\ rt = "none"
    /\ plan = NoPlan

\* A call of a method of the game or of its state came back with the heap
\* H; the calls of a game are not told apart by the call before them.
GameCall(op, arg, H) ==
    /\ heap' = H
    /\ pre' = heap
    /\ last' = [op |-> op, obj |-> "state", arg |-> arg, ret |-> None, exc |-> FALSE,
                after |-> "game"]
    /\ UNCHANGED <<levels, run, rt, plan>>

\* move, undo and redo on the game's state.
GamePlay ==
    /\ \/ \E m \in UnitMoves :
              /\ Len(Deref(heap, "state").history) < MaxHistCopy
              /\ GameCall("move", m, move(heap, "state", m, TRUE).heap)
       \/ GameCall("undo", None, undo(heap, "state").heap)
       \/ GameCall("redo", None, redo(heap, "state").heap)
    /\ UNCHANGED search

LoadLevel ==
    \E number \in {None} \cup {Number(n - 1) : n \in DOMAIN levels} :
        LET res == SokobanGame_load_level(heap, search, number)
        IN  /\ GameCall("load_level", number, res.heap)
            /\ search' = res.game

SaveSnapshot ==
    LET res == SokobanGame_save_snapshot(heap, search)
    IN  /\ GameCall("save_snapshot", None, res.heap)
        /\ search' = [res.game EXCEPT !.saved = Deref(heap, "state"), !.loads = 0]

LoadSnapshot ==
    LET res == SokobanGame_load_snapshot(heap, search)
    IN  /\ GameCall("load_snapshot", None, res.heap)
        /\ search' = [res.game EXCEPT !.loads = IF @ < 2 THEN @ + 1 ELSE @]

NextGame == GamePlay \/ LoadLevel \/ SaveSnapshot \/ LoadSnapshot

SpecGame == InitGame /\ [][NextGame]_vars

\* Blocks, mover and history of the state st are those at save time.
AsSaved(st) ==
    /\ st.boxes = search.saved.boxes
    /\ st.player = search.saved.player
    /\ st.history = search.saved.history

\* C39: after save_snapshot, any sequence of move, undo and redo followed
\* by load_snapshot yields the block set, mover position and history of
\* save time, at every later load_snapshot too, the stored snapshot never
\* being altered by the calls in between; load_snapshot without a stored
\* snapshot leaves the state unchanged; load_level with a level number
\* discards the snapshot.
C39_Snapshot ==
    /\ search.snapshot # None => AsSaved(Deref(heap, search.snapshot.ref))
    /\ (last.op = "load_snapshot" /\ search.snapshot # None) =>
           AsSaved(Deref(heap, "state"))
    /\ (last.op = "load_snapshot" /\ search.snapshot = None) => heap = pre
    /\ (last.op = "load_level" /\ last.arg # None) => search.snapshot = None

\* The snapshot of a state with a push in its history was loaded a second
\* time, the blocks having been moved after the first load.
C39_Witness ==
    /\ last.op = "load_snapshot"
    /\ search.snapshot # None /\ search.loads = 2
    /\ \E i \in DOMAIN search.saved.history : search.saved.history[i].push
    /\ Deref(pre, "state").boxes # search.saved.boxes


(***************************************************************************)
(* sokoban_ui.py: SokobanFrame.  The frame's fields path and selected and  *)
(* the number of move_path callbacks that after(25, ...) has pending are   *)
(* kept in a record f; legal tells whether every move that move_path made  *)
(* in the last handler returned True.  Every handler ends with             *)
(* update_state, which reads the state to draw it.                         *)
(***************************************************************************)
NoFrame == [op |-> "ui", path |-> None, selected |-> None, timers |-> 0, legal |-> TRUE]

\* while self.path: self.game.state.move(self.path.pop(0))
RECURSIVE move_path_instant(_, _, _)
move_path_instant(H, path, legal) ==
    IF path = <<>> THEN [heap |-> H, legal |-> legal]
    ELSE LET res == move(H, "state", Head(path), TRUE)
         IN  move_path_instant(res.heap, Tail(path), legal /\ res.ret)

\* SokobanFrame.move_path(instant).
move_path(H, f, instant) ==
    IF f.path # None /\ f.path # Some(<<>>)
    THEN IF instant
         THEN LET res == move_path_instant(H, f.path.list, f.legal)
              IN  [heap |-> res.heap,
                   frame |-> [f EXCEPT !.path = Some(<<>>), !.legal = res.legal]]
         ELSE LET res == move(H, "state", Head(f.path.list), TRUE)
              IN  [heap |-> res.heap,
                   frame |-> [f EXCEPT !.path = Some(Tail(f.path.list)),
                                       !.timers = @ + 1,
                                       !.legal = @ /\ res.ret]]
    ELSE [heap |-> H, frame |-> f]

\* SokobanFrame.handle_mouse for the event of button num on cell p.
handle_mouse(H, f, num, p) ==
    IF num = 4 THEN [heap |-> undo(H, "state").heap, frame |-> f]
    ELSE IF num = 5 THEN [heap |-> redo(H, "state").heap, frame |-> f]
    ELSE LET st == Deref(H, "state")
             f1 == IF p \in st.boxes THEN [f EXCEPT !.selected = p] ELSE f
         IN  IF is_free(st, p)
             THEN LET path == IF f1.selected = None
                              THEN find_path(st, p)
                              ELSE plan_push(st, f1.selected, p)
                      res  == move_path(H, [f1 EXCEPT !.path = path], num = 3)
                  IN  [heap |-> res.heap, frame |-> [res.frame EXCEPT !.selected = None]]
             ELSE [heap |-> H, frame |-> f1]

\* The keys of the model, with the move of the arrow keys.
Keys == {"r", "z", "y", "Right", "Left", "Up", "Down"}

DIRECTIONS(keysym) ==
    CASE keysym = "Right" -> Mv(0, 1, TRUE)
      [] keysym = "Left"  -> Mv(0, -1, TRUE)
      [] keysym = "Up"    -> Mv(-1, 0, TRUE)
      [] keysym = "Down"  -> Mv(1, 0, TRUE)

\* SokobanFrame.handle_keys for one of these keys, without shift.
handle_keys(H, f, keysym) ==
    LET f1 == [f EXCEPT !.path = None, !.selected = None]
    IN  [heap  |-> CASE keysym = "r" -> copy(H, "initial", "state")
                     [] keysym = "z" -> undo(H, "state").heap
                     [] keysym = "y" -> redo(H, "state").heap
                     [] OTHER -> move(H, "state", DIRECTIONS(keysym), TRUE).heap,
         frame |-> f1]

\* The level of the frame's game.
FrameText ==
    << <<"#","#","#","#","#">>,
       <<"#","@","$"," ","#">>,
       <<"#"," "," ",".","#">>,
       <<"#","#","#","#","#">> >>

InitFrame ==
    /\ LET parsed == load_level(FrameText)
       IN  /\ levels = << Level__init__(parsed.walls, parsed.goals) >>
           /\ heap = copy(State__init__(EmptyHeap, "initial", 1, parsed.boxes,
                                        parsed.player, None),
                          "initial", "state")
    /\ last = NoCall
    /\ pre = heap
    /\ run = NoRun
    /\ rt = "none"
    /\ plan = NoPlan
    /\ search = NoFrame

\* A handler of the frame ran for the event arg and came back as res.
Handled(op, arg, res) ==
    /\ heap' = res.heap
    /\ search' = res.frame
    /\ pre' = heap
    /\ last' = [op |-> op, obj |-> "state", arg |-> arg, ret |-> None, exc |-> FALSE,
                after |-> "ui"]
    /\ UNCHANGED <<levels, run, rt, plan>>

\* The frame as a handler finds it.
Frame == [search EXCEPT !.legal = TRUE]

\* A click of the left or right button on a cell of the level.
MouseButton ==
    \E num \in {1, 3}, p \in GridCells(levels[1]) :
        /\ Len(Deref(heap, "state").history) < MaxHistCopy
        /\ search.timers < MaxTimers
        /\ Handled("handle_mouse", [num |-> num, p |-> p], handle_mouse(heap, Frame, num, p))

\* The mouse wheel turned.
MouseWheel ==
    \E num \in {4, 5} :
        LET res == handle_mouse(heap, Frame, num, None)
        IN  Handled("handle_mouse", [num |-> num, p |-> None], res)

KeyPress ==
    \E keysym \in Keys :
        /\ keysym \in {"Right", "Left", "Up", "Down"} =>
               Len(Deref(heap, "state").history) < MaxHistCopy
        /\ Handled("handle_keys", [keysym |-> keysym], handle_keys(heap, Frame, keysym))

\* A callback of after(25, self.move_path) runs.
Timer ==
    /\ search.timers > 0
    /\ Handled("move_path", None, move_path(heap, [Frame EXCEPT !.timers = @ - 1], FALSE))

NextFrame == MouseButton \/ MouseWheel \/ KeyPress \/ Timer

SpecFrame == InitFrame /\ [][NextFrame]_vars

\* C40: every move that move_path applies is legal when it is applied:
\* State.move returns True, under every interleaving of the timer
\* callbacks with key and mouse events.
C40_AnimatedMovesLegal == search.legal

====
